---- MODULE Spec2Model ----
(***************************************************************************)
(* btrfs-backup: the backup workflow (validate, snapshot, backup, verify,  *)
(* cleanup) of internal/backup/manager.go, as orchestrated by              *)
(* backup.Manager.RunBackup, by the CLI's runBackup and by the older       *)
(* BackupManager.RunBackup of backup.go.                                   *)
(*                                                                         *)
(* Strings that the code inspects (snapshot names, prefixes, paths) are    *)
(* sequences of one-character strings.  An error value is a record         *)
(* [msg, args]: msg is the chain of message texts from the outermost       *)
(* fmt.Errorf inwards, args the values formatted into those messages.      *)
(***************************************************************************)
EXTENDS Integers, Sequences, FiniteSets, TLC

\* ------------------------------------------------------------------ bounds
\* Largest keep_snapshots value of a target.
MaxKeep == 2
\* Modification times of the entries found in the snapshot root: 0..MaxMtime.
MaxMtime == 1
\* Number of changes made by other processes during one run.
MaxExternal == 1
\* Longest value text of a one-line credential file.
MaxValueLen == 5
\* Longest credential file made of keys, colons, blanks, '#' and newlines.
MaxFileLen == 6
\* the longest credential file of the runs under a set environment, in lines
MaxLines == 2

\* ------------------------------------------------------------- text helpers
Range(s) == {s[i] : i \in 1..Len(s)}

\* strings.HasPrefix
HasPrefix(s, p) == Len(p) <= Len(s) /\ SubSeq(s, 1, Len(p)) = p

\* filepath.Join(dir, name), for a name without separators
Join(dir, name) == dir \o <<"/">> \o name

RECURSIVE LastSlash(_, _)
LastSlash(p, i) == IF i = 0 THEN 0 ELSE IF p[i] = "/" THEN i ELSE LastSlash(p, i - 1)

\* filepath.Base
Base(p) == SubSeq(p, LastSlash(p, Len(p)) + 1, Len(p))

\* strings.Index(s, c) for a one-character c, counted from 1; 0: not found
RECURSIVE IndexFrom(_, _, _)
IndexFrom(s, c, i) ==
    IF i > Len(s) THEN 0 ELSE IF s[i] = c THEN i ELSE IndexFrom(s, c, i + 1)
Index(s, c) == IndexFrom(s, c, 1)

\* strings.TrimLeft / TrimRight / Trim(s, cutset)
RECURSIVE TrimLeft(_, _)
TrimLeft(s, cutset) ==
    IF Len(s) > 0 /\ s[1] \in cutset THEN TrimLeft(Tail(s), cutset) ELSE s
RECURSIVE TrimRight(_, _)
TrimRight(s, cutset) ==
    IF Len(s) > 0 /\ s[Len(s)] \in cutset THEN TrimRight(SubSeq(s, 1, Len(s) - 1), cutset)
    ELSE s
Trim(s, cutset) == TrimRight(TrimLeft(s, cutset), cutset)

\* strings.TrimSpace
WhiteSpace == {" ", "\t", "\n", "\r"}
TrimSpace(s) == Trim(s, WhiteSpace)

\* strings.Cut, had it split at the last sep instead of the first
CutLast(s, sep) ==
    LET idx == {j \in 1..Len(s) : s[j] = sep}
        i == IF idx = {} THEN 0 ELSE CHOOSE j \in idx : \A k \in idx : k <= j
    IN  IF i = 0 THEN [before |-> s, after |-> <<>>, found |-> FALSE]
        ELSE [before |-> SubSeq(s, 1, i - 1), after |-> SubSeq(s, i + 1, Len(s)),
              found |-> TRUE]

\* strings.Cut(s, sep) for a one-character sep
Cut(s, sep) ==
    LET i == Index(s, sep)
    IN  IF i = 0 THEN [before |-> s, after |-> <<>>, found |-> FALSE]
        ELSE [before |-> SubSeq(s, 1, i - 1), after |-> SubSeq(s, i + 1, Len(s)),
              found |-> TRUE]

Digits == <<"0", "1", "2", "3", "4", "5", "6", "7", "8", "9">>

\* time.Format("20060102-150405"): a date part, a dash, a time-of-day part.
\* The miniature clock counts seconds; ten seconds make a day.
FormatTimestamp(t) == <<Digits[((t \div 10) % 10) + 1], "-", Digits[(t % 10) + 1]>>

\* ------------------------------------------------------------------ errors
Nil == [msg |-> <<>>, args |-> <<>>]

\* fmt.Errorf(text with the values args and, last, the wrapped error inner)
Errorf(text, args, inner) == [msg |-> <<text>> \o inner.msg, args |-> args \o inner.args]

\* the *exec.ExitError of a failed cmd.Run()
ExitError == [msg |-> <<"exit status 1">>, args |-> <<>>]

\* the *fs.PathError of a failed os.ReadDir / os.ReadFile
PathError(path) == [msg |-> <<"permission denied">>, args |-> <<path>>]
\* the *fs.PathError of os.ReadDir on a directory that is not there
NotExistError(path) == [msg |-> <<"no such file or directory">>, args |-> <<path>>]

\* --------------------------------------------------------- configuration
\* config.Config
SnapshotDir == <<"s">>
ResticRepoDir == <<"r">>

\* the fields of config.TargetConfig that do not vary in the model
Subvolume == <<"v">>
Repository == <<"k">>

Prefixes == {<<"a">>, <<"a", "-", "b">>}
Types == {"incremental", "full"}

\* names of the entries that may be in the snapshot root before the run
OldNames == {<<"a">> \o <<"-">> \o FormatTimestamp(0),
             <<"a">> \o <<"-">> \o FormatTimestamp(1),
             <<"a", "-", "b">> \o <<"-">> \o FormatTimestamp(0)}

\* a directory: a function from the names present to their modification time
Directories == UNION {[ns -> 0..MaxMtime] : ns \in SUBSET OldNames}

RootStates == {"present", "absent", "unreadable"}
\* the states of the root for the process when it may not even search the path
\* to it: os.Stat of the root and of all under it fails with "permission denied"
StatStates == RootStates \cup {"denied"}
RepoStates == {"present", "absent", "unreadable"}
Variants == {"manager", "cli", "main"}

\* ----------------------------------------------------------- external calls
\* env: the cmd.Env given to the command (<<>>: the process environment as it is)
Call(op, path, tags, excludeCaches, force, subset) ==
    [op |-> op, path |-> path, tags |-> tags, excludeCaches |-> excludeCaches,
     force |-> force, subset |-> subset, env |-> <<>>]

ShowSubvolumeCall(subvolume) == Call("ShowSubvolume", subvolume, <<>>, FALSE, FALSE, <<>>)
CreateSnapshotCall(path) == Call("CreateSnapshot", path, <<>>, FALSE, FALSE, <<>>)
DeleteSubvolumeCall(path) == Call("DeleteSubvolume", path, <<>>, FALSE, FALSE, <<>>)
CheckCall(subset) == Call("Check", <<>>, <<>>, FALSE, FALSE, subset)

\* buildBackupCommand, had it passed --force whatever the target's type
buildBackupCommandAlwaysForce(snapshotPath, target) ==
    Call("Backup", snapshotPath,
         <<<<"btrfs-backup">>, target.Prefix, Base(snapshotPath)>>,
         TRUE, TRUE, <<>>)

\* the restic backup invocation assembled by buildBackupCommand
buildBackupCommand(snapshotPath, target) ==
    Call("Backup", snapshotPath,
         <<<<"btrfs-backup">>, target.Prefix, Base(snapshotPath)>>,
         TRUE, target.Type = "full", <<>>)

\* ------------------------------------------------------------- file system
\* os.IsNotExist(err) for the err of os.Stat(path), path under the snapshot root;
\* under a root in state "denied" every stat fails with a permission error,
\* which is not a not-exist error
StatNotExist(rootState, d, path) ==
    /\ rootState # "denied"
    /\ \/ rootState = "absent"
       \/ ~ \E n \in DOMAIN d : Join(SnapshotDir, n) = path

\* d with the entry name added (mtime) / removed
AddEntry(d, name, mtime) == [n \in DOMAIN d \cup {name} |-> IF n = name THEN mtime ELSE d[n]]
RemoveEntries(d, names) == [n \in DOMAIN d \ names |-> d[n]]

\* ------------------------------------------------------------------- steps
\* ValidateEnvironment, had it checked the source before the snapshot root
ValidateEnvironmentSourceFirst(subvolume, rootState, showOk) ==
    IF ~ showOk
    THEN [err |-> Errorf("source subvolume invalid or not BTRFS", <<subvolume>>, Nil),
          calls |-> <<ShowSubvolumeCall(subvolume)>>]
    ELSE [err |-> IF rootState = "absent"
                  THEN Errorf("snapshots directory does not exist", <<SnapshotDir>>, Nil)
                  ELSE Nil,
          calls |-> <<ShowSubvolumeCall(subvolume)>>]

\* ValidateEnvironment, had it failed on any error of the stat of the snapshot root
ValidateEnvironmentAnyStatError(subvolume, rootState, showOk) ==
    IF rootState \in {"absent", "denied"}
    THEN [err |-> Errorf("snapshots directory does not exist", <<SnapshotDir>>, Nil),
          calls |-> <<>>]
    ELSE [err |-> IF showOk THEN Nil
                  ELSE Errorf("source subvolume invalid or not BTRFS", <<subvolume>>, Nil),
          calls |-> <<ShowSubvolumeCall(subvolume)>>]

\* ValidateEnvironment; showOk: the exit status of "btrfs subvolume show"
ValidateEnvironment(subvolume, rootState, showOk) ==
    IF rootState = "absent"
    THEN [err |-> Errorf("snapshots directory does not exist", <<SnapshotDir>>, Nil),
          calls |-> <<>>]
    ELSE [err |-> IF showOk THEN Nil
                  ELSE Errorf("source subvolume invalid or not BTRFS", <<subvolume>>, Nil),
          calls |-> <<ShowSubvolumeCall(subvolume)>>]

CreateOutcomes == {"cmdfail", "created", "missing"}

\* CreateSnapshot, had it joined prefix and timestamp without the "-"
CreateSnapshotNoSeparator(subvolume, prefix, t, rootState, d, outcome) ==
    LET snapshotName == prefix \o FormatTimestamp(t)
        snapshotPath == Join(SnapshotDir, snapshotName)
        after == IF outcome = "created" /\ snapshotName \notin DOMAIN d
                 THEN AddEntry(d, snapshotName, t) ELSE d
    IN  IF outcome = "cmdfail"
        THEN [path |-> <<>>, dir |-> d, calls |-> <<CreateSnapshotCall(snapshotPath)>>,
              err |-> Errorf("BTRFS snapshot command failed", <<>>, ExitError)]
        ELSE IF StatNotExist(rootState, after, snapshotPath)
        THEN [path |-> <<>>, dir |-> after, calls |-> <<CreateSnapshotCall(snapshotPath)>>,
              err |-> Errorf("snapshot not found after creation", <<snapshotPath>>, Nil)]
        ELSE [path |-> snapshotPath, dir |-> after,
              calls |-> <<CreateSnapshotCall(snapshotPath)>>, err |-> Nil]

\* CreateSnapshot, had it refused a destination that is already there
CreateSnapshotChecksExisting(subvolume, prefix, t, rootState, d, outcome) ==
    LET snapshotName == prefix \o <<"-">> \o FormatTimestamp(t)
        snapshotPath == Join(SnapshotDir, snapshotName)
        after == IF outcome = "created" /\ snapshotName \notin DOMAIN d
                 THEN AddEntry(d, snapshotName, t) ELSE d
    IN  IF rootState = "present" /\ snapshotName \in DOMAIN d
        THEN [path |-> <<>>, dir |-> d, calls |-> <<>>,
              err |-> Errorf("snapshot already exists", <<snapshotPath>>, Nil)]
        ELSE IF outcome = "cmdfail"
        THEN [path |-> <<>>, dir |-> d, calls |-> <<CreateSnapshotCall(snapshotPath)>>,
              err |-> Errorf("BTRFS snapshot command failed", <<>>, ExitError)]
        ELSE IF StatNotExist(rootState, after, snapshotPath)
        THEN [path |-> <<>>, dir |-> after, calls |-> <<CreateSnapshotCall(snapshotPath)>>,
              err |-> Errorf("snapshot not found after creation", <<snapshotPath>>, Nil)]
        ELSE [path |-> snapshotPath, dir |-> after,
              calls |-> <<CreateSnapshotCall(snapshotPath)>>, err |-> Nil]

\* CreateSnapshot at time t; outcome: what "btrfs subvolume snapshot" did
CreateSnapshot(subvolume, prefix, t, rootState, d, outcome) ==
    LET snapshotName == prefix \o <<"-">> \o FormatTimestamp(t)
        snapshotPath == Join(SnapshotDir, snapshotName)
        after == IF outcome = "created" /\ snapshotName \notin DOMAIN d
                 THEN AddEntry(d, snapshotName, t) ELSE d
    IN  IF outcome = "cmdfail"
        THEN [path |-> <<>>, dir |-> d, calls |-> <<CreateSnapshotCall(snapshotPath)>>,
              err |-> Errorf("BTRFS snapshot command failed", <<>>, ExitError)]
        ELSE IF StatNotExist(rootState, after, snapshotPath)
        THEN [path |-> <<>>, dir |-> after, calls |-> <<CreateSnapshotCall(snapshotPath)>>,
              err |-> Errorf("snapshot not found after creation", <<snapshotPath>>, Nil)]
        ELSE [path |-> snapshotPath, dir |-> after,
              calls |-> <<CreateSnapshotCall(snapshotPath)>>, err |-> Nil]

\* the parsing loop, had it put each new entry in front of the earlier ones
RECURSIVE ParseLinesPrepends(_, _)
ParseLinesPrepends(content, env) ==
    IF Len(content) = 0 THEN env
    ELSE LET newlineIdx == Index(content, "\n")
             line == IF newlineIdx > 0 THEN SubSeq(content, 1, newlineIdx - 1) ELSE content
             rest == IF newlineIdx > 0 THEN SubSeq(content, newlineIdx + 1, Len(content))
                     ELSE <<>>
             trimmed == TrimSpace(line)
             c == Cut(trimmed, ":")
             key == TrimSpace(c.before)
             value == Trim(TrimSpace(c.after), {"\"", "'"})
         IN  IF trimmed = <<>> \/ HasPrefix(trimmed, <<"#">>) THEN ParseLinesPrepends(rest, env)
             ELSE IF ~ c.found THEN ParseLinesPrepends(rest, env)
             ELSE ParseLinesPrepends(rest, <<key \o <<"=">> \o value>> \o env)

\* the parsing loop of loadRepositoryEnv over the rest of the file, content
RECURSIVE ParseLines(_, _)
ParseLines(content, env) ==
    IF Len(content) = 0 THEN env
    ELSE LET newlineIdx == Index(content, "\n")
             line == IF newlineIdx > 0 THEN SubSeq(content, 1, newlineIdx - 1) ELSE content
             rest == IF newlineIdx > 0 THEN SubSeq(content, newlineIdx + 1, Len(content))
                     ELSE <<>>
             trimmed == TrimSpace(line)
             c == Cut(trimmed, ":")
             key == TrimSpace(c.before)
             value == Trim(TrimSpace(c.after), {"\"", "'"})
         IN  IF trimmed = <<>> \/ HasPrefix(trimmed, <<"#">>) THEN ParseLines(rest, env)
             ELSE IF ~ c.found THEN ParseLines(rest, env)
             ELSE ParseLines(rest, Append(env, key \o <<"=">> \o value))

\* loadRepositoryEnv, had it built the overlay on what an earlier load left
\* behind (the entries of the file as first read) instead of on os.Environ()
loadRepositoryEnvKeepsEarlier(repository, repoState, data, environ) ==
    LET repoFile == Join(ResticRepoDir, repository)
        earlier == ParseLines(<<"K", ":", " ", "v">>, environ)
    IN  IF repoState = "absent"
        THEN [env |-> <<>>,
              err |-> Errorf("repository configuration not found", <<repository, repoFile>>, Nil)]
        ELSE IF repoState = "unreadable"
        THEN [env |-> <<>>,
              err |-> Errorf("failed to read repository config", <<repoFile>>,
                             PathError(repoFile))]
        ELSE [env |-> ParseLines(data, earlier), err |-> Nil]

\* loadRepositoryEnv, had it taken a file it cannot read for an empty one
loadRepositoryEnvIgnoresReadError(repository, repoState, data, environ) ==
    LET repoFile == Join(ResticRepoDir, repository)
    IN  IF repoState = "absent"
        THEN [env |-> <<>>,
              err |-> Errorf("repository configuration not found", <<repository, repoFile>>, Nil)]
        ELSE IF repoState = "unreadable"
        THEN [env |-> environ, err |-> Nil]
        ELSE [env |-> ParseLines(data, environ), err |-> Nil]

\* loadRepositoryEnv, had it put os.Environ() behind the entries of the file
loadRepositoryEnvAmbientLast(repository, repoState, data, environ) ==
    LET repoFile == Join(ResticRepoDir, repository)
    IN  IF repoState = "absent"
        THEN [env |-> <<>>,
              err |-> Errorf("repository configuration not found", <<repository, repoFile>>, Nil)]
        ELSE IF repoState = "unreadable"
        THEN [env |-> <<>>,
              err |-> Errorf("failed to read repository config", <<repoFile>>,
                             PathError(repoFile))]
        ELSE [env |-> ParseLines(data, <<>>) \o environ, err |-> Nil]

\* loadRepositoryEnv; data: the bytes of the file, environ: os.Environ()
loadRepositoryEnv(repository, repoState, data, environ) ==
    LET repoFile == Join(ResticRepoDir, repository)
    IN  IF repoState = "absent"
        THEN [env |-> <<>>,
              err |-> Errorf("repository configuration not found", <<repository, repoFile>>, Nil)]
        ELSE IF repoState = "unreadable"
        THEN [env |-> <<>>,
              err |-> Errorf("failed to read repository config", <<repoFile>>,
                             PathError(repoFile))]
        ELSE [env |-> ParseLines(data, environ), err |-> Nil]

\* PerformBackup; backupOk: the exit status of "restic backup"
PerformBackup(snapshotPath, target, rootState, d, repoState, data, environ, backupOk) ==
    LET loadedEnv == loadRepositoryEnv(target.Repository, repoState, data, environ)
        cmd == buildBackupCommand(snapshotPath, target)
    IN  IF StatNotExist(rootState, d, snapshotPath)
        THEN [err |-> Errorf("snapshot path does not exist", <<snapshotPath>>, Nil),
              calls |-> <<>>, ops |-> <<"Stat">>]
        ELSE IF loadedEnv.err # Nil
        THEN [err |-> Errorf("repository configuration failed", <<>>, loadedEnv.err),
              calls |-> <<>>, ops |-> <<"Stat", "loadRepositoryEnv">>]
        ELSE [err |-> IF backupOk THEN Nil
                      ELSE Errorf("restic backup command failed", <<>>, ExitError),
              calls |-> <<[cmd EXCEPT !.env = loadedEnv.env]>>,
              ops |-> <<"Stat", "loadRepositoryEnv", "Backup">>]

\* VerifyRepository, had it kept the credentials as they were read for the backup
VerifyRepositoryCachedCredentials(repository, repoState, data, environ, checkOk) ==
    LET loadedEnv == loadRepositoryEnv(repository, repoState, <<"K", ":", " ", "v">>, environ)
        cmd == CheckCall(<<"5", "%">>)
    IN  IF loadedEnv.err # Nil
        THEN [err |-> Errorf("repository configuration failed for verification", <<>>,
                             loadedEnv.err),
              calls |-> <<>>]
        ELSE [err |-> IF checkOk THEN Nil
                      ELSE Errorf("repository verification failed", <<repository>>, ExitError),
              calls |-> <<[cmd EXCEPT !.env = loadedEnv.env]>>]

\* VerifyRepository; checkOk: the exit status of "restic check"
VerifyRepository(repository, repoState, data, environ, checkOk) ==
    LET loadedEnv == loadRepositoryEnv(repository, repoState, data, environ)
        cmd == CheckCall(<<"5", "%">>)
    IN  IF loadedEnv.err # Nil
        THEN [err |-> Errorf("repository configuration failed for verification", <<>>,
                             loadedEnv.err),
              calls |-> <<>>]
        ELSE [err |-> IF checkOk THEN Nil
                      ELSE Errorf("repository verification failed", <<repository>>, ExitError),
              calls |-> <<[cmd EXCEPT !.env = loadedEnv.env]>>]

\* ------------------------------------------------------ inventory, cleanup
\* the sequences that list every name of the set names exactly once
Orderings(names) ==
    {s \in [1..Cardinality(names) -> names] : \A i, j \in DOMAIN s : s[i] = s[j] => i = j}

\* the less function, had it compared the other way round (oldest first)
AfterReversed(mi, mj) == mi < mj

\* the less function handed to sort.Slice: snapshots[i].mtime.After(snapshots[j].mtime)
After(mi, mj) == mi > mj

\* sort.Slice(snapshots, less) is not stable: any ordering in which no entry
\* stands before one that less puts in front of it
SortSlice(names, d) ==
    {s \in Orderings(names) : \A i, j \in DOMAIN s : i < j => ~ After(d[s[j]], d[s[i]])}

\* entry.Info() fails for the entry n of d: an entry whose metadata cannot be
\* read has no modification time, written as a negative one
InfoFails(d, n) == d[n] < 0

\* getSnapshotsByPrefix, had it done without the test of the prefix
getSnapshotsByPrefixNoFilter(prefix, rootState, d) ==
    LET matching == {n \in DOMAIN d : ~ InfoFails(d, n)}
    IN  IF rootState = "absent"
        THEN {[list |-> <<>>, err |-> Nil]}
        ELSE IF rootState \in {"unreadable", "denied"}
        THEN {[list |-> <<>>,
               err |-> Errorf("could not list snapshots directory", <<>>, PathError(SnapshotDir))]}
        ELSE {[list |-> s, err |-> Nil] : s \in SortSlice(matching, d)}

\* getSnapshotsByPrefix, had it gone on to read a snapshot root that is absent
getSnapshotsByPrefixNoStat(prefix, rootState, d) ==
    LET searchPrefix == prefix \o <<"-">>
        matching == {n \in DOMAIN d : HasPrefix(n, searchPrefix) /\ ~ InfoFails(d, n)}
    IN  IF rootState \in {"absent", "unreadable", "denied"}
        THEN {[list |-> <<>>,
               err |-> Errorf("could not list snapshots directory", <<>>, PathError(SnapshotDir))]}
        ELSE {[list |-> s, err |-> Nil] : s \in SortSlice(matching, d)}

\* readSnapshots, had it kept the entries whose entry.Info() fails, with the
\* zero time for their modification time
readSnapshotsKeepsUnreadable(prefix, rootState, d) ==
    LET searchPrefix == prefix \o <<"-">>
        matching == {n \in DOMAIN d : HasPrefix(n, searchPrefix)}
    IN  IF rootState = "absent"
        THEN {[list |-> <<>>,
               err |-> Errorf("could not list snapshots directory", <<>>,
                              NotExistError(SnapshotDir))]}
        ELSE IF rootState \in {"unreadable", "denied"}
        THEN {[list |-> <<>>,
               err |-> Errorf("could not list snapshots directory", <<>>, PathError(SnapshotDir))]}
        ELSE {[list |-> s, err |-> Nil] : s \in SortSlice(matching, d)}

\* getSnapshotsByPrefix from os.ReadDir on, the stat of the root passed: the
\* results [list, err] it can return
readSnapshots(prefix, rootState, d) ==
    LET searchPrefix == prefix \o <<"-">>
        matching == {n \in DOMAIN d : HasPrefix(n, searchPrefix) /\ ~ InfoFails(d, n)}
    IN  IF rootState = "absent"
        THEN {[list |-> <<>>,
               err |-> Errorf("could not list snapshots directory", <<>>,
                              NotExistError(SnapshotDir))]}
        ELSE IF rootState \in {"unreadable", "denied"}
        THEN {[list |-> <<>>,
               err |-> Errorf("could not list snapshots directory", <<>>, PathError(SnapshotDir))]}
        ELSE {[list |-> s, err |-> Nil] : s \in SortSlice(matching, d)}

\* getSnapshotsByPrefix with the root in one state for the stat and the read:
\* the results [list, err] it can return
getSnapshotsByPrefix(prefix, rootState, d) ==
    IF rootState = "absent"
    THEN {[list |-> <<>>, err |-> Nil]}
    ELSE readSnapshots(prefix, rootState, d)

DeleteOutcomes == {"deleted", "cmdfail", "stillexists"}

\* deleteSnapshot, had it trusted the exit status without the stat afterwards
deleteSnapshotNoRecheck(snapshotName, outcome) ==
    LET snapshotPath == Join(SnapshotDir, snapshotName)
    IN  [calls |-> <<DeleteSubvolumeCall(snapshotPath)>>,
         removed |-> outcome = "deleted",
         err |-> IF outcome = "cmdfail"
                 THEN Errorf("BTRFS delete command failed for snapshot", <<snapshotName>>, ExitError)
                 ELSE Nil]

\* deleteSnapshot; outcome: what "btrfs subvolume delete" did
deleteSnapshot(snapshotName, outcome) ==
    LET snapshotPath == Join(SnapshotDir, snapshotName)
    IN  [calls |-> <<DeleteSubvolumeCall(snapshotPath)>>,
         removed |-> outcome = "deleted",
         err |-> IF outcome = "cmdfail"
                 THEN Errorf("BTRFS delete command failed for snapshot", <<snapshotName>>, ExitError)
                 ELSE IF outcome = "stillexists"
                 THEN Errorf("snapshot still exists after deletion", <<snapshotPath>>, Nil)
                 ELSE Nil]

\* snapshots[retention:], had it been snapshots[:len(snapshots)-retention]
SnapshotsToDeleteNewest(snapshots, retention) ==
    IF Len(snapshots) <= retention THEN <<>>
    ELSE SubSeq(snapshots, 1, Len(snapshots) - retention)

\* snapshots[retention:], had it been snapshots[retention+1:]
SnapshotsToDeleteKeepsOneMore(snapshots, retention) ==
    IF Len(snapshots) <= retention + 1 THEN <<>>
    ELSE SubSeq(snapshots, retention + 2, Len(snapshots))

\* snapshots[retention:], reached only when len(snapshots) > retention
SnapshotsToDelete(snapshots, retention) ==
    IF Len(snapshots) <= retention THEN <<>>
    ELSE SubSeq(snapshots, retention + 1, Len(snapshots))

\* the loop of CleanupOldSnapshots, had it stopped at the first failed deletion
RECURSIVE DeleteLoopStopsAtFailure(_, _, _)
DeleteLoopStopsAtFailure(toDelete, outcomes, i) ==
    IF i > Len(toDelete)
    THEN [calls |-> <<>>, removed |-> {}, failed |-> <<>>]
    ELSE LET r == deleteSnapshot(toDelete[i], outcomes[i])
             rest == DeleteLoopStopsAtFailure(toDelete, outcomes, i + 1)
         IN  IF r.err # Nil
             THEN [calls |-> r.calls, removed |-> {}, failed |-> <<toDelete[i]>>]
             ELSE [calls |-> r.calls \o rest.calls,
                   removed |-> {toDelete[i]} \cup rest.removed,
                   failed |-> rest.failed]

\* the loop of CleanupOldSnapshots over snapshotsToDelete[i..]: the delete
\* calls made, the names removed and the failedDeletions collected
RECURSIVE DeleteLoop(_, _, _)
DeleteLoop(toDelete, outcomes, i) ==
    IF i > Len(toDelete)
    THEN [calls |-> <<>>, removed |-> {}, failed |-> <<>>]
    ELSE LET r == deleteSnapshot(toDelete[i], outcomes[i])
             rest == DeleteLoop(toDelete, outcomes, i + 1)
         IN  [calls |-> r.calls \o rest.calls,
              removed |-> (IF r.removed THEN {toDelete[i]} ELSE {}) \cup rest.removed,
              failed |-> (IF r.err # Nil THEN <<toDelete[i]>> ELSE <<>>) \o rest.failed]

\* CleanupOldSnapshots on the listing [list, err]; outcomes[i]: the outcome of
\* the i-th deletion
CleanupOldSnapshots(listing, retention, outcomes) ==
    LET toDelete == SnapshotsToDelete(listing.list, retention)
        loop == DeleteLoop(toDelete, outcomes, 1)
    IN  IF listing.err # Nil
        THEN [err |-> Errorf("failed to list snapshots", <<>>, listing.err),
              calls |-> <<>>, removed |-> {}, toDelete |-> <<>>, failed |-> <<>>]
        ELSE [err |-> IF Len(loop.failed) > 0
                      THEN Errorf("failed to delete some snapshots", loop.failed, Nil)
                      ELSE Nil,
              calls |-> loop.calls, removed |-> loop.removed,
              toDelete |-> toDelete, failed |-> loop.failed]

\* ---------------------------------------------------------- orchestration
\* What each orchestration does once the step `step` has returned err: the
\* step to run next ("done": return), the error returned and the steps whose
\* failure is logged as a warning.
Continue(next) == [pc |-> next, result |-> Nil, log |-> {}]
Return(err) == [pc |-> "done", result |-> err, log |-> {}]
Warn(step, next) == [pc |-> next, result |-> Nil, log |-> {step}]

\* RunBackup, had it gone on to the cleanup step after a failed backup
RunBackupPrunesAfterFailedBackup(step, err, target, snapshotPath) ==
    CASE step = "validate" ->
            IF err # Nil THEN Return(Errorf("environment validation failed", <<>>, err))
            ELSE Continue("snapshot")
      [] step = "snapshot" ->
            IF err # Nil THEN Return(Errorf("snapshot creation failed", <<>>, err))
            ELSE Continue("backup")
      [] step = "backup" ->
            IF err # Nil
            THEN Continue("cleanup")
            ELSE Continue(IF target.Verify THEN "verify" ELSE "cleanup")
      [] step = "verify" ->
            IF err # Nil THEN Return(Errorf("repository verification failed", <<>>, err))
            ELSE Continue("cleanup")
      [] step = "cleanup" ->
            IF err # Nil THEN Return(Errorf("snapshot cleanup failed", <<>>, err))
            ELSE Return(Nil)

\* RunBackup, had it not returned on a validation error
RunBackupUngated(step, err, target, snapshotPath) ==
    CASE step = "validate" ->
            Continue("snapshot")
      [] step = "snapshot" ->
            IF err # Nil THEN Return(Errorf("snapshot creation failed", <<>>, err))
            ELSE Continue("backup")
      [] step = "backup" ->
            IF err # Nil
            THEN Return(Errorf("backup operation failed (snapshot preserved at)",
                               <<snapshotPath>>, err))
            ELSE Continue(IF target.Verify THEN "verify" ELSE "cleanup")
      [] step = "verify" ->
            IF err # Nil THEN Return(Errorf("repository verification failed", <<>>, err))
            ELSE Continue("cleanup")
      [] step = "cleanup" ->
            IF err # Nil THEN Return(Errorf("snapshot cleanup failed", <<>>, err))
            ELSE Return(Nil)

\* RunBackup, had it wrapped a snapshot error with the message of validation
RunBackupMislabels(step, err, target, snapshotPath) ==
    CASE step = "validate" ->
            IF err # Nil THEN Return(Errorf("environment validation failed", <<>>, err))
            ELSE Continue("snapshot")
      [] step = "snapshot" ->
            IF err # Nil THEN Return(Errorf("environment validation failed", <<>>, err))
            ELSE Continue("backup")
      [] step = "backup" ->
            IF err # Nil
            THEN Return(Errorf("backup operation failed (snapshot preserved at)",
                               <<snapshotPath>>, err))
            ELSE Continue(IF target.Verify THEN "verify" ELSE "cleanup")
      [] step = "verify" ->
            IF err # Nil THEN Return(Errorf("repository verification failed", <<>>, err))
            ELSE Continue("cleanup")
      [] step = "cleanup" ->
            IF err # Nil THEN Return(Errorf("snapshot cleanup failed", <<>>, err))
            ELSE Return(Nil)

\* RunBackup, had it verified the repository whatever the verify flag
RunBackupAlwaysVerifies(step, err, target, snapshotPath) ==
    CASE step = "validate" ->
            IF err # Nil THEN Return(Errorf("environment validation failed", <<>>, err))
            ELSE Continue("snapshot")
      [] step = "snapshot" ->
            IF err # Nil THEN Return(Errorf("snapshot creation failed", <<>>, err))
            ELSE Continue("backup")
      [] step = "backup" ->
            IF err # Nil
            THEN Return(Errorf("backup operation failed (snapshot preserved at)",
                               <<snapshotPath>>, err))
            ELSE Continue("verify")
      [] step = "verify" ->
            IF err # Nil THEN Return(Errorf("repository verification failed", <<>>, err))
            ELSE Continue("cleanup")
      [] step = "cleanup" ->
            IF err # Nil THEN Return(Errorf("snapshot cleanup failed", <<>>, err))
            ELSE Return(Nil)

\* backup.Manager.RunBackup
RunBackup(step, err, target, snapshotPath) ==
    CASE step = "validate" ->
            IF err # Nil THEN Return(Errorf("environment validation failed", <<>>, err))
            ELSE Continue("snapshot")
      [] step = "snapshot" ->
            IF err # Nil THEN Return(Errorf("snapshot creation failed", <<>>, err))
            ELSE Continue("backup")
      [] step = "backup" ->
            IF err # Nil
            THEN Return(Errorf("backup operation failed (snapshot preserved at)",
                               <<snapshotPath>>, err))
            ELSE Continue(IF target.Verify THEN "verify" ELSE "cleanup")
      [] step = "verify" ->
            IF err # Nil THEN Return(Errorf("repository verification failed", <<>>, err))
            ELSE Continue("cleanup")
      [] step = "cleanup" ->
            IF err # Nil THEN Return(Errorf("snapshot cleanup failed", <<>>, err))
            ELSE Return(Nil)

\* runBackup of internal/cli, had it returned the error of a failed verification
runBackupVerifyFatal(step, err, target, snapshotPath) ==
    CASE step = "validate" ->
            IF err # Nil THEN Return(Errorf("environment validation failed", <<>>, err))
            ELSE Continue("snapshot")
      [] step = "snapshot" ->
            IF err # Nil THEN Return(Errorf("snapshot creation failed", <<>>, err))
            ELSE Continue("backup")
      [] step = "backup" ->
            IF err # Nil THEN Return(Errorf("backup operation failed", <<>>, err))
            ELSE Continue(IF target.Verify THEN "verify" ELSE "cleanup")
      [] step = "verify" ->
            IF err # Nil THEN Return(Errorf("repository verification failed", <<>>, err))
            ELSE Continue("cleanup")
      [] step = "cleanup" ->
            IF err # Nil THEN Warn("cleanup", "done") ELSE Return(Nil)

\* runBackup of internal/cli, which calls the Manager's step methods itself
runBackup(step, err, target, snapshotPath) ==
    CASE step = "validate" ->
            IF err # Nil THEN Return(Errorf("environment validation failed", <<>>, err))
            ELSE Continue("snapshot")
      [] step = "snapshot" ->
            IF err # Nil THEN Return(Errorf("snapshot creation failed", <<>>, err))
            ELSE Continue("backup")
      [] step = "backup" ->
            IF err # Nil THEN Return(Errorf("backup operation failed", <<>>, err))
            ELSE Continue(IF target.Verify THEN "verify" ELSE "cleanup")
      [] step = "verify" ->
            IF err # Nil THEN Warn("verify", "cleanup") ELSE Continue("cleanup")
      [] step = "cleanup" ->
            IF err # Nil THEN Warn("cleanup", "done") ELSE Return(Nil)

\* BackupManager.RunBackup, had it taken a failed backup for a warning
BackupManagerRunBackupBackupWarns(step, err, target, snapshotPath) ==
    CASE step = "validate" ->
            IF err # Nil THEN Return(Errorf("environment validation failed", <<>>, err))
            ELSE Continue("snapshot")
      [] step = "snapshot" ->
            IF err # Nil THEN Return(Errorf("snapshot creation failed", <<>>, err))
            ELSE Continue("backup")
      [] step = "backup" ->
            IF err # Nil THEN Warn("backup", IF target.Verify THEN "verify" ELSE "cleanup")
            ELSE Continue(IF target.Verify THEN "verify" ELSE "cleanup")
      [] step = "verify" ->
            IF err # Nil THEN Warn("verify", "cleanup") ELSE Continue("cleanup")
      [] step = "cleanup" ->
            IF err # Nil THEN Warn("cleanup", "done") ELSE Return(Nil)

\* BackupManager.RunBackup of backup.go
BackupManagerRunBackup(step, err, target, snapshotPath) ==
    CASE step = "validate" ->
            IF err # Nil THEN Return(Errorf("environment validation failed", <<>>, err))
            ELSE Continue("snapshot")
      [] step = "snapshot" ->
            IF err # Nil THEN Return(Errorf("snapshot creation failed", <<>>, err))
            ELSE Continue("backup")
      [] step = "backup" ->
            IF err # Nil THEN Return(Errorf("backup operation failed", <<>>, err))
            ELSE Continue(IF target.Verify THEN "verify" ELSE "cleanup")
      [] step = "verify" ->
            IF err # Nil THEN Warn("verify", "cleanup") ELSE Continue("cleanup")
      [] step = "cleanup" ->
            IF err # Nil THEN Warn("cleanup", "done") ELSE Return(Nil)

Orchestrate(v, step, err, target, snapshotPath) ==
    CASE v = "manager" -> RunBackup(step, err, target, snapshotPath)
      [] v = "cli" -> runBackup(step, err, target, snapshotPath)
      [] v = "main" -> BackupManagerRunBackup(step, err, target, snapshotPath)

\* ------------------------------------------------------------------- state
\* ------------------------------------------------- target configuration
\* The target file is taken as the keys it sets, each with the text of its
\* value; how: the loader and format ("json", "yaml": loadTargetConfig of
\* main.go on a JSON / YAML file, "viper": config.LoadTargetConfig).
DefaultKeepSnapshots == 3

ZeroTarget == [Subvolume |-> <<>>, Prefix |-> <<>>, Repository |-> <<>>, Type |-> "",
               Verify |-> FALSE, KeepSnapshots |-> 0]

\* parseInt: the number the decimal digits of s spell, -1 if s has another
\* character
DigitValue(c) == CHOOSE d \in 0..9 : Digits[d + 1] = c
RECURSIVE ParseIntLoop(_, _)
ParseIntLoop(s, result) ==
    IF s = <<>> THEN result
    ELSE IF s[1] \in Range(Digits) THEN ParseIntLoop(Tail(s), result * 10 + DigitValue(s[1]))
    ELSE -1
parseInt(s) == ParseIntLoop(s, 0)

\* the integer a typed decoder (encoding/json, viper) reads from the text s
DecodeInt(s) == IF s # <<>> /\ s[1] = "-" THEN 0 - ParseIntLoop(Tail(s), 0) ELSE ParseIntLoop(s, 0)

\* parseTargetYAML: the keys of the file f assigned to the target t
parseTargetYAML(f, t) ==
    [Subvolume |-> IF f.subvolume.set THEN f.subvolume.val ELSE t.Subvolume,
     Prefix |-> IF f.prefix.set THEN f.prefix.val ELSE t.Prefix,
     Repository |-> IF f.repository.set THEN f.repository.val ELSE t.Repository,
     Type |-> IF f.type.set THEN f.type.val ELSE t.Type,
     Verify |-> IF f.verify.set THEN f.verify.val \in {"true", "1"} ELSE t.Verify,
     KeepSnapshots |-> IF f.keep_snapshots.set /\ parseInt(f.keep_snapshots.val) >= 0
                       THEN parseInt(f.keep_snapshots.val) ELSE t.KeepSnapshots]

\* json.Unmarshal(data, &target) of a well-formed JSON object
jsonUnmarshal(f, t) ==
    [Subvolume |-> IF f.subvolume.set THEN f.subvolume.val ELSE t.Subvolume,
     Prefix |-> IF f.prefix.set THEN f.prefix.val ELSE t.Prefix,
     Repository |-> IF f.repository.set THEN f.repository.val ELSE t.Repository,
     Type |-> IF f.type.set THEN f.type.val ELSE t.Type,
     Verify |-> IF f.verify.set THEN f.verify.val = "true" ELSE t.Verify,
     KeepSnapshots |-> IF f.keep_snapshots.set THEN DecodeInt(f.keep_snapshots.val)
                       ELSE t.KeepSnapshots]

\* setTargetDefaults(target) of main.go
setTargetDefaults(t) ==
    [t EXCEPT !.Type = IF @ = "" THEN "incremental" ELSE @,
              !.KeepSnapshots = IF @ = 0 THEN DefaultKeepSnapshots ELSE @]

\* setTargetDefaults(v) of the viper loader: what v holds for keys no file sets
ViperDefaults == [ZeroTarget EXCEPT !.Type = "incremental",
                                    !.KeepSnapshots = DefaultKeepSnapshots,
                                    !.Verify = FALSE]

\* v.ReadInConfig and v.Unmarshal(&target): a key the file sets overrides its
\* default, whatever its value
viperUnmarshal(f) == jsonUnmarshal(f, ViperDefaults)

validateTargetConfig(t) ==
    IF t.Subvolume = <<>> THEN Errorf("subvolume is required", <<>>, Nil)
    ELSE IF t.Prefix = <<>> THEN Errorf("prefix is required", <<>>, Nil)
    ELSE IF t.Repository = <<>> THEN Errorf("repository is required", <<>>, Nil)
    ELSE IF t.Type # "" /\ t.Type \notin {"incremental", "full"}
    THEN Errorf("invalid backup type, must be 'incremental' or 'full'", <<t.Type>>, Nil)
    ELSE IF t.KeepSnapshots < 0 THEN Errorf("keep_snapshots must be non-negative", <<>>, Nil)
    ELSE Nil

\* loadTargetConfig of main.go (and the LoadTargetConfig that parses by hand)
loadTargetConfig(how, f) ==
    LET parsed == IF how = "json" THEN jsonUnmarshal(f, ZeroTarget)
                  ELSE parseTargetYAML(f, ZeroTarget)
        t == setTargetDefaults(parsed)
        err == validateTargetConfig(t)
    IN  IF err # Nil
        THEN [target |-> ZeroTarget, err |-> Errorf("invalid target configuration", <<>>, err)]
        ELSE [target |-> t, err |-> Nil]

\* config.LoadTargetConfig, the loader built on viper
LoadTargetConfig(f) ==
    LET t == viperUnmarshal(f)
        err == validateTargetConfig(t)
    IN  IF err # Nil
        THEN [target |-> ZeroTarget, err |-> Errorf("invalid target configuration", <<>>, err)]
        ELSE [target |-> t, err |-> Nil]

\* the loaders by name
LoadTarget(how, f) == IF how = "viper" THEN LoadTargetConfig(f) ELSE loadTargetConfig(how, f)

VARIABLES
    variant,        \* which orchestration drives the run
    target,         \* the config.TargetConfig of the run
    root,           \* state of the snapshot root directory
    dir,            \* entries of the snapshot root: name -> modification time
    repo,           \* state of the credential file of target.Repository
    now,            \* the clock
    pc,             \* the step the run is about to execute, or "done"
    snapshotPath,   \* what CreateSnapshot returned
    result,         \* the error returned by the run (Nil: success), once pc = "done"
    calls,          \* the calls made to the btrfs and restic tools, in order
    steps,          \* the step methods called, in order, each with its error
    cleanup,        \* inventory, selection and failures of the cleanup step
    logged,         \* the steps whose failure was logged as a warning
    external,       \* number of changes made by other processes so far
    preExisting,    \* the names in the snapshot root when the run started
    file,           \* the bytes of the credential file
    environ,        \* os.Environ(), the environment of the process
    loaded,         \* what a direct call of loadRepositoryEnv returned
    targetFile,     \* the target configuration file and the loader reading it
    loadedTarget,   \* what the loader returned
    exit,           \* the exit status of the backup command, once it has exited
    ops             \* what PerformBackup did, in order

vars == <<variant, target, root, dir, repo, now, pc, snapshotPath, result, calls,
          steps, cleanup, logged, external, preExisting, file, environ, loaded,
          targetFile, loadedTarget, exit, ops>>

\* what the steps of a run leave alone
credVars == <<file, environ, loaded>>
cfgVars == <<targetFile, loadedTarget>>

Targets ==
    [Subvolume : {Subvolume}, Prefix : Prefixes, Repository : {Repository},
     Type : Types, Verify : BOOLEAN, KeepSnapshots : 0..MaxKeep]

NoCleanup == [ran |-> FALSE, list |-> <<>>, toDelete |-> <<>>, failed |-> <<>>,
              outcomes |-> <<>>, err |-> Nil, listErr |-> Nil, before |-> <<>>]

\* the credential file and the environment of a run of the workflow
RunFile == <<"K", ":", " ", "v">>
RunEnviron == <<<<"P", "=", "e">>>>
NotLoaded == [called |-> FALSE, env |-> <<>>, err |-> Nil]

\* a key of the target file: not set, or set to one of the texts of S
Unset(zero) == [set |-> FALSE, val |-> zero]
Opt(S, zero) == {Unset(zero)} \cup {[set |-> TRUE, val |-> v] : v \in S}
\* the target file behind the target of a run: a file that sets nothing here
RunTargetFile ==
    [how |-> "viper",
     fields |-> [subvolume |-> Unset(<<>>), prefix |-> Unset(<<>>),
                 repository |-> Unset(<<>>), type |-> Unset(""), verify |-> Unset(""),
                 keep_snapshots |-> Unset(<<>>)]]
NotLoadedTarget == [called |-> FALSE, target |-> ZeroTarget, err |-> Nil]

Init ==
    /\ variant \in Variants
    /\ target \in Targets
    /\ root \in RootStates
    /\ dir \in Directories
    /\ repo \in RepoStates
    /\ now = MaxMtime + 1
    /\ pc = "validate"
    /\ snapshotPath = <<>>
    /\ result = Nil
    /\ calls = <<>>
    /\ steps = <<>>
    /\ cleanup = NoCleanup
    /\ logged = {}
    /\ external = 0
    /\ preExisting = DOMAIN dir
    /\ file = RunFile
    /\ environ = RunEnviron
    /\ loaded = NotLoaded
    /\ targetFile = RunTargetFile
    /\ loadedTarget = NotLoadedTarget
    /\ exit = <<>>
    /\ ops = <<>>

\* the backup command of internal/cli around runBackup: "Backup failed" and
\* os.Exit(1) when the run returned an error, else "Backup completed
\* successfully" and the return from main
createBackupCmd(err) == IF err # Nil THEN 1 ELSE 0
\* the backup command of package main around BackupManager.RunBackup
handleBackup(err) == IF err # Nil THEN 1 ELSE 0
\* the exit status after a run of orchestration v returned err; Manager.RunBackup
\* is called as a library function, no process exits
Command(v, err) ==
    CASE v = "cli" -> <<createBackupCmd(err)>>
      [] v = "main" -> <<handleBackup(err)>>
      [] v = "manager" -> <<>>

\* the bookkeeping shared by the steps: the step returned err after making cs
Advance(step, err, cs, path) ==
    LET o == Orchestrate(variant, step, err, target, path)
    IN  /\ pc' = o.pc
        /\ result' = o.result
        /\ logged' = logged \cup o.log
        /\ calls' = calls \o cs
        /\ steps' = Append(steps, [step |-> step, err |-> err])
        /\ exit' = IF o.pc = "done" THEN Command(variant, o.result) ELSE exit

StepValidate ==
    /\ pc = "validate"
    /\ \E showOk \in BOOLEAN :
          LET r == ValidateEnvironment(target.Subvolume, root, showOk)
          IN  Advance("validate", r.err, r.calls, snapshotPath)
    /\ UNCHANGED <<variant, target, root, dir, repo, now, snapshotPath, cleanup,
                   external, preExisting, credVars, cfgVars, ops>>

StepSnapshot ==
    /\ pc = "snapshot"
    /\ \E outcome \in CreateOutcomes :
          LET r == CreateSnapshot(target.Subvolume, target.Prefix, now, root, dir, outcome)
          IN  /\ dir' = r.dir
              /\ snapshotPath' = r.path
              /\ Advance("snapshot", r.err, r.calls, r.path)
    /\ UNCHANGED <<variant, target, root, repo, now, cleanup, external, preExisting, credVars, cfgVars, ops>>

StepBackup ==
    /\ pc = "backup"
    /\ \E backupOk \in BOOLEAN :
          LET r == PerformBackup(snapshotPath, target, root, dir, repo, file, environ,
                                 backupOk)
          IN  /\ ops' = r.ops
              /\ Advance("backup", r.err, r.calls, snapshotPath)
    /\ UNCHANGED <<variant, target, root, dir, repo, now, snapshotPath, cleanup,
                   external, preExisting, credVars, cfgVars>>

StepVerify ==
    /\ pc = "verify"
    /\ \E checkOk \in BOOLEAN :
          LET r == VerifyRepository(target.Repository, repo, file, environ, checkOk)
          IN  Advance("verify", r.err, r.calls, snapshotPath)
    /\ UNCHANGED <<variant, target, root, dir, repo, now, snapshotPath, cleanup,
                   external, preExisting, credVars, cfgVars, ops>>

StepCleanup ==
    /\ pc = "cleanup"
    /\ \E listing \in getSnapshotsByPrefix(target.Prefix, root, dir) :
       \E outcomes \in [1..Len(SnapshotsToDelete(listing.list, target.KeepSnapshots))
                         -> DeleteOutcomes] :
          LET r == CleanupOldSnapshots(listing, target.KeepSnapshots, outcomes)
          IN  /\ dir' = RemoveEntries(dir, r.removed)
              /\ cleanup' = [ran |-> TRUE, list |-> listing.list, toDelete |-> r.toDelete,
                             failed |-> r.failed, outcomes |-> outcomes, err |-> r.err,
                             listErr |-> listing.err, before |-> dir]
              /\ Advance("cleanup", r.err, r.calls, snapshotPath)
    /\ UNCHANGED <<variant, target, root, repo, now, snapshotPath, external, preExisting, credVars, cfgVars, ops>>

\* Another process deletes the snapshot between its creation and the backup
\* step (the case PerformBackup re-checks for).
ExternalDeleteSnapshot ==
    /\ pc = "backup"
    /\ external < MaxExternal
    /\ \E n \in DOMAIN dir :
          /\ Join(SnapshotDir, n) = snapshotPath
          /\ dir' = RemoveEntries(dir, {n})
    /\ external' = external + 1
    /\ UNCHANGED <<variant, target, root, repo, now, pc, snapshotPath, result, calls,
                   steps, cleanup, logged, preExisting, credVars, cfgVars, exit, ops>>

\* Another process changes the credential file between the backup and the
\* verify step (a change before the backup step is a different initial state).
ExternalChangeRepo ==
    /\ pc = "verify"
    /\ external < MaxExternal
    /\ \E st \in RepoStates \ {repo} : repo' = st
    /\ external' = external + 1
    /\ UNCHANGED <<variant, target, root, dir, now, pc, snapshotPath, result, calls,
                   steps, cleanup, logged, preExisting, credVars, cfgVars, exit, ops>>

\* the credential file after an edit: the key K gone, another key in its place
EditedFiles == {<<"L", ":", " ", "w">>}

\* Another process edits the credential file between the backup and the
\* verify step.
ExternalEditFile ==
    /\ pc = "verify"
    /\ external < MaxExternal
    /\ repo = "present"
    /\ file' \in EditedFiles \ {file}
    /\ external' = external + 1
    /\ UNCHANGED <<variant, target, root, dir, repo, now, pc, snapshotPath, result, calls,
                   steps, cleanup, logged, preExisting, environ, loaded,
                   cfgVars, exit, ops>>

\* Another process removes the snapshot root, with all it holds, before the
\* cleanup step lists it.
ExternalRemoveRoot ==
    /\ pc = "cleanup"
    /\ external < MaxExternal
    /\ root # "absent"
    /\ root' = "absent"
    /\ dir' = RemoveEntries(dir, DOMAIN dir)
    /\ external' = external + 1
    /\ UNCHANGED <<variant, target, repo, now, pc, snapshotPath, result, calls,
                   steps, cleanup, logged, preExisting, credVars, cfgVars, exit, ops>>

Next ==
    \/ StepValidate
    \/ StepSnapshot
    \/ StepBackup
    \/ StepVerify
    \/ StepCleanup
    \/ ExternalDeleteSnapshot
    \/ ExternalChangeRepo
    \/ ExternalRemoveRoot

Spec == Init /\ [][Next]_vars

\* ------------------------- a run during which the credential file is edited
\* runs with verification over an empty snapshot root
InitEdit ==
    /\ Init
    /\ root = "present"
    /\ dir = RemoveEntries(<<>>, {})
    /\ target.Verify
    /\ target.KeepSnapshots = 0

NextEdit ==
    \/ StepValidate
    \/ StepSnapshot
    \/ StepBackup
    \/ StepVerify
    \/ StepCleanup
    \/ ExternalChangeRepo
    \/ ExternalEditFile

SpecEdit == InitEdit /\ [][NextEdit]_vars

\* the calls of CleanupOldSnapshots and getSnapshotsByPrefix read prefix and keep-count
CleanupTargets == {t \in Targets : ~ t.Verify /\ t.Type = "incremental"}

\* ------------------ a run over entries as recent as the snapshot it creates
\* The modification time of a snapshot is the one the file system gives its
\* directory, which the program neither sets nor compares with the clock: an
\* entry already in the snapshot root may carry the same time as the one the
\* run creates.
TiedDirectories == UNION {[ns -> 0..(MaxMtime + 1)] : ns \in SUBSET OldNames}

InitTies ==
    /\ variant \in Variants
    /\ target \in CleanupTargets
    /\ root = "present"
    /\ dir \in TiedDirectories
    /\ repo = "present"
    /\ now = MaxMtime + 1
    /\ pc = "validate"
    /\ snapshotPath = <<>>
    /\ result = Nil
    /\ calls = <<>>
    /\ steps = <<>>
    /\ cleanup = NoCleanup
    /\ logged = {}
    /\ external = 0
    /\ preExisting = DOMAIN dir
    /\ file = RunFile
    /\ environ = RunEnviron
    /\ loaded = NotLoaded
    /\ targetFile = RunTargetFile
    /\ loadedTarget = NotLoadedTarget
    /\ exit = <<>>
    /\ ops = <<>>

NextTies ==
    \/ StepValidate
    \/ StepSnapshot
    \/ StepBackup
    \/ StepCleanup

SpecTies == InitTies /\ [][NextTies]_vars

\* ------------------------------------------- loadRepositoryEnv on its own
SeqUpTo(S, n) == UNION {[1..k -> S] : k \in 0..n}

\* one-line files "K:<value>", the value made of a letter, quotes and blanks
QuoteFiles == {<<"K", ":">> \o v : v \in SeqUpTo({"v", "\"", "'", " "}, MaxValueLen)}
\* files made of a letter, colons, blanks, '#' and newlines
SplitFiles == SeqUpTo({"K", ":", " ", "#", "\n"}, MaxFileLen)
Files == QuoteFiles \cup SplitFiles
Environs == {<<>>, RunEnviron}

InitLoad ==
    /\ variant = "manager"
    /\ target = [Subvolume |-> Subvolume, Prefix |-> <<"a">>, Repository |-> Repository,
                 Type |-> "incremental", Verify |-> FALSE, KeepSnapshots |-> 0]
    /\ root = "present"
    /\ dir = RemoveEntries(<<>>, {})
    /\ \/ repo = "present" /\ file \in Files
       \/ repo \in RepoStates \ {"present"} /\ file = RunFile
    /\ environ \in Environs
    /\ now = 0
    /\ pc = "load"
    /\ snapshotPath = <<>>
    /\ result = Nil
    /\ calls = <<>>
    /\ steps = <<>>
    /\ cleanup = NoCleanup
    /\ logged = {}
    /\ external = 0
    /\ preExisting = {}
    /\ loaded = NotLoaded
    /\ targetFile = RunTargetFile
    /\ loadedTarget = NotLoadedTarget
    /\ exit = <<>>
    /\ ops = <<>>

\* a call of loadRepositoryEnv(target.Repository)
LoadStep ==
    /\ pc = "load"
    /\ LET r == loadRepositoryEnv(target.Repository, repo, file, environ)
       IN  loaded' = [called |-> TRUE, env |-> r.env, err |-> r.err]
    /\ pc' = "loaded"
    /\ UNCHANGED <<variant, target, root, dir, repo, now, snapshotPath, result, calls,
                   steps, cleanup, logged, external, preExisting, file, environ,
                   cfgVars, exit, ops>>

\* a second call of loadRepositoryEnv(target.Repository), nothing changed
ReloadStep ==
    /\ pc = "loaded"
    /\ LET r == loadRepositoryEnv(target.Repository, repo, file, environ)
       IN  loaded' = [called |-> TRUE, env |-> r.env, err |-> r.err]
    /\ pc' = "reloaded"
    /\ UNCHANGED <<variant, target, root, dir, repo, now, snapshotPath, result, calls,
                   steps, cleanup, logged, external, preExisting, file, environ,
                   cfgVars, exit, ops>>

NextLoad == LoadStep \/ ReloadStep

SpecLoad == InitLoad /\ [][NextLoad]_vars

\* ------------------- loadRepositoryEnv under an environment that sets the keys
\* the lines a credential file is made of: entries for three keys, one of them
\* with two values, a comment and a line without a colon
CredLines == {<<"K", ":", "v">>, <<"K", ":", " ", "w">>, <<"P", ":", "v">>,
              <<"Q", ":", "v">>, <<"#", "K", ":", "x">>, <<"K">>}
\* the lines ls, each but the last ended by a newline
RECURSIVE JoinLines(_)
JoinLines(ls) ==
    IF ls = <<>> THEN <<>>
    ELSE IF Len(ls) = 1 THEN ls[1]
    ELSE ls[1] \o <<"\n">> \o JoinLines(Tail(ls))
AmbientFiles == {JoinLines(ls) : ls \in SeqUpTo(CredLines, MaxLines)}
\* os.Environ() with the keys K and P set, in either order, or K alone
AmbientEnvirons == {<< <<"K", "=", "e">> >>,
                    << <<"K", "=", "e">>, <<"P", "=", "e">> >>,
                    << <<"P", "=", "e">>, <<"K", "=", "e">> >>}

InitAmbient ==
    /\ variant = "manager"
    /\ target = [Subvolume |-> Subvolume, Prefix |-> <<"a">>, Repository |-> Repository,
                 Type |-> "incremental", Verify |-> FALSE, KeepSnapshots |-> 0]
    /\ root = "present"
    /\ dir = RemoveEntries(<<>>, {})
    /\ repo = "present"
    /\ file \in AmbientFiles
    /\ environ \in AmbientEnvirons
    /\ now = 0
    /\ pc = "load"
    /\ snapshotPath = <<>>
    /\ result = Nil
    /\ calls = <<>>
    /\ steps = <<>>
    /\ cleanup = NoCleanup
    /\ logged = {}
    /\ external = 0
    /\ preExisting = {}
    /\ loaded = NotLoaded
    /\ targetFile = RunTargetFile
    /\ loadedTarget = NotLoadedTarget
    /\ exit = <<>>
    /\ ops = <<>>

SpecAmbient == InitAmbient /\ [][NextLoad]_vars

\* --------------------------------------------- the target loaders on their own
TargetFields ==
    [subvolume : Opt({<<>>, Subvolume}, <<>>),
     prefix : Opt({<<>>, <<"a">>}, <<>>),
     repository : Opt({<<>>, Repository}, <<>>),
     type : Opt({"", "incremental", "full", "x"}, ""),
     verify : Opt({"true", "false"}, ""),
     keep_snapshots : Opt({<<"-", "1">>, <<"0">>, <<"2">>, <<"1", "0">>}, <<>>)]
TargetFiles == [how : {"json", "yaml", "viper"}, fields : TargetFields]

InitTarget ==
    /\ variant = "cli"
    /\ target = ZeroTarget
    /\ root = "present"
    /\ dir = RemoveEntries(<<>>, {})
    /\ repo = "present"
    /\ file = RunFile
    /\ environ = RunEnviron
    /\ now = 0
    /\ pc = "loadTarget"
    /\ snapshotPath = <<>>
    /\ result = Nil
    /\ calls = <<>>
    /\ steps = <<>>
    /\ cleanup = NoCleanup
    /\ logged = {}
    /\ external = 0
    /\ preExisting = {}
    /\ loaded = NotLoaded
    /\ targetFile \in TargetFiles
    /\ loadedTarget = NotLoadedTarget
    /\ exit = <<>>
    /\ ops = <<>>

\* the backup command loads the target file; a target that loads becomes the
\* target of the run
LoadTargetStep ==
    /\ pc = "loadTarget"
    /\ LET r == LoadTarget(targetFile.how, targetFile.fields)
       IN  /\ loadedTarget' = [called |-> TRUE, target |-> r.target, err |-> r.err]
           /\ target' = r.target
    /\ pc' = "targetLoaded"
    /\ UNCHANGED <<variant, root, dir, repo, now, snapshotPath, result, calls, steps,
                   cleanup, logged, external, preExisting, credVars, targetFile,
                   exit, ops>>

NextTarget == LoadTargetStep

SpecTarget == InitTarget /\ [][NextTarget]_vars

\* ------------------------------------------ the step methods on their own
\* ValidateEnvironment, CreateSnapshot (twice, as two instances of the program
\* do for one target) and PerformBackup, each called directly on a Manager
UnitPaths == {Join(SnapshotDir, n) : n \in OldNames}
\* directories with entries whose metadata cannot be read
InfoDirectories == UNION {[ns -> (-1)..MaxMtime] : ns \in SUBSET OldNames}

\* the step methods read the source path, the prefix, the repository and the mode
UnitTargets == {t \in Targets : ~ t.Verify /\ t.KeepSnapshots = 0}

InitUnit ==
    /\ variant = "manager"
    /\ root \in StatStates
    /\ now = MaxMtime + 1
    /\ \/ /\ pc \in {"unitValidate", "unitSnapshot"}
          /\ snapshotPath = <<>>
          /\ target \in UnitTargets /\ dir \in Directories /\ repo \in RepoStates
       \/ /\ pc = "unitBackup"
          /\ snapshotPath \in UnitPaths
          /\ target \in UnitTargets /\ dir \in Directories /\ repo \in RepoStates
       \/ /\ pc \in {"unitCleanup", "unitList"}
          /\ snapshotPath = <<>>
          /\ target \in CleanupTargets /\ dir \in InfoDirectories /\ repo = "present"
          /\ root = "absent" => dir = RemoveEntries(<<>>, {})
    /\ result = Nil
    /\ calls = <<>>
    /\ steps = <<>>
    /\ cleanup = NoCleanup
    /\ logged = {}
    /\ external = 0
    /\ preExisting = DOMAIN dir
    /\ file = RunFile
    /\ environ = RunEnviron
    /\ loaded = NotLoaded
    /\ targetFile = RunTargetFile
    /\ loadedTarget = NotLoadedTarget
    /\ exit = <<>>
    /\ ops = <<>>

\* what the unit steps leave alone
unitVars == <<variant, target, root, repo, result, cleanup, logged, external, preExisting,
              credVars, cfgVars, exit>>
\* what the calls of the cleanup and the listing leave alone
listVars == <<variant, target, repo, now, snapshotPath, result, logged, external,
              preExisting, credVars, cfgVars, exit, ops>>

UnitValidate ==
    /\ pc = "unitValidate"
    /\ \E showOk \in BOOLEAN :
          LET r == ValidateEnvironment(target.Subvolume, root, showOk)
          IN  /\ steps' = Append(steps, [step |-> "validate", err |-> r.err])
              /\ calls' = calls \o r.calls
    /\ pc' = "done"
    /\ UNCHANGED <<unitVars, dir, now, snapshotPath, ops>>

\* a snapshot creation, and a second one for the same target
UnitSnapshot ==
    /\ pc \in {"unitSnapshot", "unitSnapshotAgain"}
    /\ \E outcome \in CreateOutcomes :
          LET r == CreateSnapshot(target.Subvolume, target.Prefix, now, root, dir, outcome)
          IN  /\ dir' = r.dir
              /\ snapshotPath' = r.path
              /\ steps' = Append(steps, [step |-> "snapshot", err |-> r.err])
              /\ calls' = calls \o r.calls
    /\ pc' = IF pc = "unitSnapshot" THEN "unitSnapshotAgain" ELSE "done"
    /\ UNCHANGED <<unitVars, now, ops>>

\* a second passes between the two creations
UnitTick ==
    /\ pc = "unitSnapshotAgain"
    /\ now = MaxMtime + 1
    /\ now' = now + 1
    /\ UNCHANGED <<unitVars, dir, pc, snapshotPath, calls, steps, ops>>

UnitBackup ==
    /\ pc = "unitBackup"
    /\ \E backupOk \in BOOLEAN :
          LET r == PerformBackup(snapshotPath, target, root, dir, repo, file, environ,
                                 backupOk)
          IN  /\ steps' = Append(steps, [step |-> "backup", err |-> r.err])
              /\ calls' = calls \o r.calls
              /\ ops' = r.ops
    /\ pc' = "done"
    /\ UNCHANGED <<unitVars, dir, now, snapshotPath>>

\* CleanupOldSnapshots(target.Prefix, target.KeepSnapshots)
UnitCleanup ==
    /\ pc = "unitCleanup"
    /\ \E listing \in getSnapshotsByPrefix(target.Prefix, root, dir) :
       \E outcomes \in [1..Len(SnapshotsToDelete(listing.list, target.KeepSnapshots))
                         -> DeleteOutcomes] :
          LET r == CleanupOldSnapshots(listing, target.KeepSnapshots, outcomes)
          IN  /\ dir' = RemoveEntries(dir, r.removed)
              /\ cleanup' = [ran |-> TRUE, list |-> listing.list, toDelete |-> r.toDelete,
                             failed |-> r.failed, outcomes |-> outcomes, err |-> r.err,
                             listErr |-> listing.err, before |-> dir]
              /\ steps' = Append(steps, [step |-> "cleanup", err |-> r.err])
              /\ calls' = calls \o r.calls
    /\ pc' = "done"
    /\ UNCHANGED <<listVars, root>>

\* getSnapshotsByPrefix(target.Prefix) up to its test of the stat of the root
UnitListStat ==
    /\ pc = "unitList"
    /\ IF root = "absent"
       THEN /\ cleanup' = [NoCleanup EXCEPT !.ran = TRUE, !.before = dir]
            /\ steps' = Append(steps, [step |-> "list", err |-> Nil])
            /\ pc' = "done"
       ELSE /\ pc' = "unitListRead"
            /\ UNCHANGED <<cleanup, steps>>
    /\ UNCHANGED <<listVars, root, dir, calls>>

\* Another process removes the snapshot root between the stat and the read.
UnitRemoveRoot ==
    /\ pc = "unitListRead"
    /\ root # "absent"
    /\ root' = "absent"
    /\ dir' = RemoveEntries(dir, DOMAIN dir)
    /\ UNCHANGED <<listVars, pc, cleanup, steps, calls>>

\* getSnapshotsByPrefix(target.Prefix) from os.ReadDir on
UnitListRead ==
    /\ pc = "unitListRead"
    /\ \E listing \in readSnapshots(target.Prefix, root, dir) :
          /\ cleanup' = [NoCleanup EXCEPT !.ran = TRUE, !.list = listing.list,
                                         !.listErr = listing.err, !.before = dir]
          /\ steps' = Append(steps, [step |-> "list", err |-> listing.err])
    /\ pc' = "done"
    /\ UNCHANGED <<listVars, root, dir, calls>>

NextUnit ==
    \/ UnitValidate
    \/ UnitSnapshot
    \/ UnitTick
    \/ UnitBackup
    \/ UnitCleanup
    \/ UnitListStat
    \/ UnitRemoveRoot
    \/ UnitListRead

SpecUnit == InitUnit /\ [][NextUnit]_vars

TypeOK ==
    /\ pc \in {"validate", "snapshot", "backup", "verify", "cleanup", "done", "load", "loaded",
              "reloaded", "loadTarget", "targetLoaded", "unitValidate", "unitSnapshot",
              "unitSnapshotAgain", "unitBackup", "unitCleanup", "unitList",
              "unitListRead"}
    /\ external \in 0..MaxExternal
    /\ \A n \in DOMAIN dir : dir[n] \in (-1)..now

\* ------------------------------------------------------------ vocabulary
Ran(s) == \E i \in DOMAIN steps : steps[i].step = s
Succeeded(s) == \E i \in DOMAIN steps : steps[i].step = s /\ steps[i].err = Nil
StepFailed(s) == \E i \in DOMAIN steps : steps[i].step = s /\ steps[i].err # Nil
ErrOf(s) == steps[CHOOSE i \in DOMAIN steps : steps[i].step = s].err
OpsCalled == {calls[i].op : i \in DOMAIN calls}
IsDelete(c) == c.op = "DeleteSubvolume"
DeleteCalls == SelectSeq(calls, IsDelete)
Returned == pc = "done"
\* the error e wraps the error inner: inner's message chain ends e's
Wraps(e, inner) ==
    /\ Len(e.msg) > Len(inner.msg)
    /\ SubSeq(e.msg, Len(e.msg) - Len(inner.msg) + 1, Len(e.msg)) = inner.msg
\* the names a listing for the target's prefix can show now
Listed == UNION {Range(l.list) : l \in getSnapshotsByPrefix(target.Prefix, root, dir)}
ListingWorks == \A l \in getSnapshotsByPrefix(target.Prefix, root, dir) : l.err = Nil
SearchPrefix == target.Prefix \o <<"-">>
\* the name of the snapshot the run created
CreatedName == Base(snapshotPath)

\* ------------------------------------------------------------------ claims
FirstThreeSucceeded == Succeeded("validate") /\ Succeeded("snapshot") /\ Succeeded("backup")
SnapshotWasMissing == "snapshot path does not exist" \in Range(ErrOf("backup").msg)
PreExistingOfPrefix == {n \in preExisting : HasPrefix(n, SearchPrefix)}

\* C1 (as stated): when the backup step of backup.Manager.RunBackup fails, the
\* run returns a fatal error, issues no snapshot deletion, and the snapshot
\* created in step 2 and every pre-existing snapshot are still listed for the
\* prefix afterwards.
C1_SnapshotAlwaysListedAfterFailedBackup ==
    (variant = "manager" /\ Returned /\ StepFailed("backup")) =>
        /\ result # Nil
        /\ DeleteCalls = <<>>
        /\ ListingWorks => (CreatedName \in Listed /\ PreExistingOfPrefix \subseteq Listed)

\* C1 (amended): when the backup step of backup.Manager.RunBackup fails, the
\* run returns a fatal error and issues no snapshot deletion; every
\* pre-existing snapshot is still listed afterwards, and so is the snapshot
\* created in step 2 unless the failure is that the re-check found it missing.
C1_FailedBackupDeletesNothing ==
    (variant = "manager" /\ Returned /\ StepFailed("backup")) =>
        /\ result # Nil
        /\ DeleteCalls = <<>>
        /\ ListingWorks =>
              /\ PreExistingOfPrefix \subseteq Listed
              /\ ~ SnapshotWasMissing => CreatedName \in Listed

C1_Witness ==
    /\ variant = "manager" /\ Returned /\ StepFailed("backup")
    /\ "restic backup command failed" \in Range(result.msg)
    /\ ListingWorks /\ CreatedName \in Listed
    /\ PreExistingOfPrefix # {}
    /\ Cardinality(PreExistingOfPrefix) > target.KeepSnapshots

\* C2: in backup.Manager.RunBackup, when validation, snapshot creation and
\* backup succeeded and the verify flag is set, a failure of the verify step
\* does not fail the run: RunBackup returns nil.
C2_VerifyFailureNotFatal ==
    (variant = "manager" /\ Returned /\ target.Verify /\ FirstThreeSucceeded
        /\ StepFailed("verify")) => result = Nil

\* C3: in backup.Manager.RunBackup, when validation, snapshot creation and
\* backup succeeded, a failure of the cleanup step (listing or deletions)
\* does not fail the run: RunBackup returns nil.
C3_CleanupFailureNotFatal ==
    (variant = "manager" /\ Returned /\ FirstThreeSucceeded /\ StepFailed("cleanup"))
        => result = Nil

StepOrder == <<"validate", "snapshot", "backup">>
OpOfStep == [validate |-> "ShowSubvolume", snapshot |-> "CreateSnapshot", backup |-> "Backup"]
LaterOps(i) == {OpOfStep[StepOrder[j]] : j \in (i + 1)..3} \cup {"Check", "DeleteSubvolume"}

\* C4: in backup.Manager.RunBackup validate, snapshot and backup run in that
\* order, each only after all earlier ones succeeded (no CreateSnapshot call
\* without a successful validation, no Backup call without a successful
\* snapshot creation), and the run returns the error of the first of the
\* three that fails without any external call of a later step.
C4_StepsGated ==
    variant = "manager" =>
        /\ \A i \in DOMAIN steps : i <= 3 => steps[i].step = StepOrder[i]
        /\ "CreateSnapshot" \in OpsCalled => Succeeded("validate")
        /\ "Backup" \in OpsCalled => Succeeded("validate") /\ Succeeded("snapshot")
        /\ \A i \in 1..3 :
              StepFailed(StepOrder[i]) =>
                  /\ Returned
                  /\ Len(steps) = i
                  /\ Wraps(result, ErrOf(StepOrder[i]))
                  /\ OpsCalled \cap LaterOps(i) = {}

C4_Witness ==
    /\ variant = "manager" /\ Returned
    /\ StepFailed("snapshot")
    /\ OpsCalled = {"ShowSubvolume", "CreateSnapshot"}

\* the validation of a run that starts without a snapshot root
MissingRootStopsRun ==
    /\ (pc = "validate" /\ root = "absent") =>
          /\ pc' = "done"
          /\ Len(steps') = 1 /\ steps'[1].step = "validate"
          /\ "snapshots directory does not exist" \in Range(result'.msg)
          /\ calls' = <<>>
    /\ pc = "done" => calls' = calls
\* C5: if the snapshot root does not exist when a run starts, validation fails
\* with the "snapshots directory does not exist" error and the run makes no
\* external tool call at all.
C5_MissingRootNoCalls == [][MissingRootStopsRun]_vars

C5_Witness == root = "absent" /\ Returned /\ StepFailed("validate")

Max(a, b) == IF a >= b THEN a ELSE b

\* C6: for every newest-first inventory of n entries and every keep-count
\* k >= 0, CleanupOldSnapshots selects for deletion exactly the entries at
\* index >= k: max(0, n-k) entries, the oldest ones, none of the k newest,
\* and with k = 0 the whole inventory.
C6_SelectsBeyondKeep ==
    (cleanup.ran /\ cleanup.listErr = Nil) =>
        LET inv == cleanup.list
            sel == cleanup.toDelete
            k == target.KeepSnapshots
            n == Len(inv)
        IN  /\ Len(sel) = Max(0, n - k)
            /\ \A i \in 1..Len(sel) : sel[i] = inv[k + i]
            /\ \A i \in 1..n : i <= k => inv[i] \notin Range(sel)
            /\ k = 0 => sel = inv
            /\ \A i, j \in 1..n :
                  (inv[i] \notin Range(sel) /\ inv[j] \in Range(sel))
                      => cleanup.before[inv[i]] >= cleanup.before[inv[j]]

C6_Witness ==
    /\ cleanup.ran /\ cleanup.listErr = Nil
    /\ target.KeepSnapshots = 2
    /\ Len(cleanup.list) = 4
    /\ Len(cleanup.toDelete) = 2
    /\ cleanup.before[cleanup.list[2]] > cleanup.before[cleanup.list[3]]

\* C7: CleanupOldSnapshots attempts the deletion of every selected entry, in
\* inventory order, even when earlier deletions of the same cleanup fail.
C7_AllSelectedAttempted ==
    cleanup.ran =>
        /\ Len(DeleteCalls) = Len(cleanup.toDelete)
        /\ \A i \in 1..Len(cleanup.toDelete) :
              DeleteCalls[i].path = Join(SnapshotDir, cleanup.toDelete[i])

C7_Witness ==
    /\ cleanup.ran
    /\ Len(cleanup.toDelete) >= 2
    /\ cleanup.outcomes[1] # "deleted"
    /\ Len(DeleteCalls) = Len(cleanup.toDelete)

\* the selected entries whose deletion failed: the command failed, or the
\* path was still there afterwards
FailedSet == {cleanup.toDelete[i] : i \in {j \in 1..Len(cleanup.toDelete) :
                                             cleanup.outcomes[j] # "deleted"}}

\* C8: CleanupOldSnapshots returns an error if and only if the listing failed
\* or at least one selected deletion failed, and the aggregate deletion error
\* names exactly the entries whose deletion failed.
C8_ErrorNamesFailures ==
    cleanup.ran =>
        /\ cleanup.err # Nil <=> (cleanup.listErr # Nil \/ FailedSet # {})
        /\ (cleanup.listErr = Nil /\ cleanup.err # Nil) =>
              /\ cleanup.err.msg = <<"failed to delete some snapshots">>
              /\ Range(cleanup.err.args) = FailedSet
              /\ Range(cleanup.err.args) \cap DOMAIN dir = FailedSet
              /\ \A i \in 1..Len(cleanup.list) :
                    i <= target.KeepSnapshots => cleanup.list[i] \notin Range(cleanup.err.args)

C8_Witness ==
    /\ cleanup.ran /\ cleanup.err # Nil
    /\ \E i, j \in 1..Len(cleanup.toDelete) :
          /\ cleanup.outcomes[i] = "deleted"
          /\ cleanup.outcomes[j] = "stillexists"

\* C9: in backup.Manager.RunBackup, whenever the verify step fails after a
\* successful backup, the cleanup step is still performed in the same run.
C9_CleanupAfterFailedVerify ==
    (variant = "manager" /\ Returned /\ Succeeded("backup") /\ StepFailed("verify"))
        => Ran("cleanup")

\* C10: the failure returned for a backup-step failure carries the path of the
\* preserved snapshot, both from backup.Manager.RunBackup and from the CLI's
\* runBackup.
C10_FailureCarriesPath ==
    (variant \in {"manager", "cli"} /\ Returned /\ StepFailed("backup"))
        => (result # Nil /\ snapshotPath \in Range(result.args))

StepLabel == [validate |-> "environment validation failed",
              snapshot |-> "snapshot creation failed",
              backup |-> "backup operation failed (snapshot preserved at)",
              verify |-> "repository verification failed",
              cleanup |-> "snapshot cleanup failed"]

\* C11: every fatal error returned by backup.Manager.RunBackup identifies the
\* step that failed (validation, snapshot creation, backup operation) and is
\* never attributed to a step other than the one that failed.
C11_ErrorNamesFailedStep ==
    (variant = "manager" /\ Returned /\ result # Nil) =>
        LET last == steps[Len(steps)]
        IN  /\ last.err # Nil
            /\ \A i \in 1..(Len(steps) - 1) : steps[i].err = Nil
            /\ result.msg[1] = StepLabel[last.step]
            /\ Wraps(result, last.err)
            /\ \A s \in DOMAIN StepLabel :
                  s # last.step => StepLabel[s] \notin Range(result.msg)

C11_Witness ==
    /\ variant = "manager" /\ Returned
    /\ StepFailed("snapshot")
    /\ result.msg[1] = "snapshot creation failed"

\* the names a listing for the prefix p can show now
ListedFor(p) == UNION {Range(l.list) : l \in getSnapshotsByPrefix(p, root, dir)}

\* C12: while the snapshot the run created as <prefix>-<timestamp> exists, no
\* inventory listing getSnapshotsByPrefix(otherPrefix) for a prefix other than
\* the target's shows it, also when the target's prefix begins with
\* otherPrefix followed by "-".
C12_CreatedExcludedFromOtherPrefixes ==
    (Succeeded("snapshot") /\ CreatedName \in DOMAIN dir) =>
        \A otherPrefix \in Prefixes \ {target.Prefix} : CreatedName \notin ListedFor(otherPrefix)

\* C13: every snapshot CreateSnapshot(subvolume, prefix) created successfully
\* is named <prefix>-<timestamp> (timestamp: digits, "-", digits), lies
\* directly under the snapshot root, and, if it still exists then, is in the
\* inventory the listing for the same prefix returns to the cleanup step.
C13_CreatedNameListed ==
    Succeeded("snapshot") =>
        LET name == CreatedName
            ts == SubSeq(name, Len(SearchPrefix) + 1, Len(name))
        IN  /\ snapshotPath = SnapshotDir \o <<"/">> \o name
            /\ "/" \notin Range(name)
            /\ HasPrefix(name, SearchPrefix)
            /\ Len(ts) = 3 /\ ts[1] \in Range(Digits) /\ ts[2] = "-" /\ ts[3] \in Range(Digits)
            /\ (cleanup.ran /\ root = "present" /\ cleanup.listErr = Nil
                  /\ name \in DOMAIN cleanup.before) => name \in Range(cleanup.list)

C13_Witness ==
    /\ Succeeded("snapshot") /\ root = "present"
    /\ target.Prefix = <<"a", "-", "b">>
    /\ cleanup.ran /\ cleanup.listErr = Nil
    /\ CreatedName \in DOMAIN cleanup.before
    /\ CreatedName \in Range(cleanup.list)
    /\ Len(cleanup.list) > 1

\* l lists exactly the entries of d named <p>-..., each once, and never an
\* entry before one with a strictly later modification time
NewestFirst(l, p, d) ==
    /\ Range(l) = {n \in DOMAIN d : HasPrefix(n, p \o <<"-">>)}
    /\ \A i, j \in DOMAIN l : l[i] = l[j] => i = j
    /\ \A i, j \in DOMAIN l : d[l[i]] > d[l[j]] => i < j

\* C14: every inventory getSnapshotsByPrefix returns to the cleanup step of a
\* run holds each matching entry exactly once and is ordered by modification
\* time descending: an entry with a strictly later modification time stands
\* before one with a strictly earlier one.
C14_InventoryNewestFirst ==
    (cleanup.ran /\ root = "present" /\ cleanup.listErr = Nil) =>
        NewestFirst(cleanup.list, target.Prefix, cleanup.before)

C14_Witness ==
    /\ cleanup.ran /\ root = "present" /\ cleanup.listErr = Nil
    /\ Len(cleanup.list) >= 4
    /\ \E i, j \in DOMAIN cleanup.list :
          i # j /\ cleanup.before[cleanup.list[i]] = cleanup.before[cleanup.list[j]]
    /\ \E i, j \in DOMAIN cleanup.list :
          cleanup.before[cleanup.list[i]] > cleanup.before[cleanup.list[j]]

\* C15: when the snapshot root does not exist, the inventory listing returns
\* the empty sequence and no error for any prefix, and a cleanup step that
\* runs then deletes nothing and reports no failure.
C15_MissingRootEmptyInventory ==
    root = "absent" =>
        /\ \A p \in Prefixes :
              getSnapshotsByPrefix(p, root, dir) = {[list |-> <<>>, err |-> Nil]}
        /\ cleanup.ran =>
              /\ cleanup.list = <<>> /\ cleanup.listErr = Nil
              /\ cleanup.toDelete = <<>> /\ cleanup.err = Nil
              /\ DeleteCalls = <<>>
              /\ ErrOf("cleanup") = Nil
              /\ Returned /\ result = Nil

C15_Witness ==
    /\ root = "absent" /\ cleanup.ran /\ Returned /\ result = Nil
    /\ Cardinality(PreExistingOfPrefix) > target.KeepSnapshots
    /\ DeleteCalls = <<>>

\* the positions of the repository check among the external calls
CheckIdx == {i \in DOMAIN calls : calls[i].op = "Check"}
CheckOnceAfterBackup ==
    /\ Cardinality(CheckIdx) <= 1
    /\ \A i \in CheckIdx :
          /\ calls[i].subset = <<"5", "%">>
          /\ \E j \in 1..(i - 1) : calls[j].op = "Backup"
VerifyLoadFailed ==
    /\ StepFailed("verify")
    /\ "repository configuration failed for verification" \in Range(ErrOf("verify").msg)

\* C16 (as stated): in a finished run the repository check has been invoked
\* if and only if validation, snapshot creation and backup succeeded and the
\* verify flag is set; it is invoked at most once, after the backup call, with
\* the sampling fraction "5%".
C16_CheckIffVerifyRequested ==
    /\ CheckOnceAfterBackup
    /\ Returned => ("Check" \in OpsCalled <=> (FirstThreeSucceeded /\ target.Verify))

\* C16 (amended): in a finished run the verify step has run if and only if
\* validation, snapshot creation and backup succeeded and the verify flag is
\* set, and the repository check has been invoked if and only if moreover the
\* verify step could load the credentials; it is invoked at most once, after
\* the backup call, with the sampling fraction "5%".
C16_CheckIffVerifyLoaded ==
    /\ CheckOnceAfterBackup
    /\ Returned =>
          /\ Ran("verify") <=> (FirstThreeSucceeded /\ target.Verify)
          /\ "Check" \in OpsCalled <=>
                (FirstThreeSucceeded /\ target.Verify /\ ~ VerifyLoadFailed)

C16_Witness ==
    /\ Returned /\ FirstThreeSucceeded /\ target.Verify
    /\ Cardinality(CheckIdx) = 1
    /\ StepFailed("verify") /\ ~ VerifyLoadFailed

\* C17: every backup operation PerformBackup issues has the snapshot path as
\* its source, the tags "btrfs-backup", the target's prefix and the base name
\* of the snapshot path in that order, exclude-caches set, and force set if
\* and only if the target's type is "full".
C17_BackupCallShape ==
    \A i \in DOMAIN calls :
        calls[i].op = "Backup" =>
            LET c == calls[i]
            IN  /\ c.path = snapshotPath
                /\ Len(c.tags) = 3
                /\ c.tags[1] = <<"btrfs-backup">>
                /\ c.tags[2] = target.Prefix
                /\ "/" \notin Range(c.tags[3])
                /\ SnapshotDir \o <<"/">> \o c.tags[3] = snapshotPath
                /\ c.excludeCaches = TRUE
                /\ c.force <=> (target.Type = "full")

C17_Witness ==
    /\ Succeeded("backup")
    /\ target.Type = "incremental"
    /\ target.Prefix = <<"a", "-", "b">>
    /\ \E i \in DOMAIN calls : calls[i].op = "Backup" /\ ~ calls[i].force

\* a backup or verify step that gets as far as loading the credentials while
\* the credential file is missing or unreadable
LoadFailsInStep ==
    /\ pc \in {"backup", "verify"}
    /\ Len(steps') = Len(steps) + 1
    /\ repo # "present"
    /\ pc = "backup" => ~ StatNotExist(root, dir, snapshotPath)
LoadFailureNoCall ==
    LoadFailsInStep =>
        LET r == loadRepositoryEnv(target.Repository, repo, file, environ)
            e == steps'[Len(steps')].err
        IN  /\ r.env = <<>>
            /\ r.err.msg[1] = IF repo = "absent" THEN "repository configuration not found"
                               ELSE "failed to read repository config"
            /\ r.err.args[Len(r.err.args)] = ResticRepoDir \o <<"/">> \o target.Repository
            /\ steps'[Len(steps')].step = pc
            /\ Wraps(e, r.err)
            /\ calls' = calls

\* C18: loadRepositoryEnv fails with a repository-not-found error when the
\* credential file <repoDir>/<repository> does not exist and with a read error
\* when it exists but cannot be read; it returns no overlay then, and the
\* backup or verify step that needed it fails with that error and makes no
\* call of the backup tool.
C18_LoadFailureStopsStep == [][LoadFailureNoCall]_vars

C18_Witness ==
    /\ repo = "unreadable"
    /\ VerifyLoadFailed
    /\ "failed to read repository config" \in Range(ErrOf("verify").msg)
    /\ "Check" \notin OpsCalled
    /\ "Backup" \in OpsCalled

\* the value written after "K:" in a one-line credential file
QuoteChars == {"\"", "'"}
ValueOf(f) == SubSeq(f, 3, Len(f))
\* one layer of matching quotes taken off the value v
StripOneLayer(v) ==
    IF Len(v) >= 2 /\ v[1] \in QuoteChars /\ v[Len(v)] = v[1]
    THEN SubSeq(v, 2, Len(v) - 1)
    ELSE v

\* C19: for a credential line K:<value>, loadRepositoryEnv strips exactly one
\* layer of matching quotes from the trimmed value: a value wrapped in one
\* pair of identical single or double quotes loses that pair only, and a value
\* with an unmatched quote, mismatched quote characters or further nested
\* quotes keeps everything else unchanged.
C19_StripsOneMatchingLayer ==
    (loaded.called /\ loaded.err = Nil /\ file \in QuoteFiles) =>
        /\ Len(loaded.env) = Len(environ) + 1
        /\ loaded.env[Len(loaded.env)] =
              <<"K", "=">> \o StripOneLayer(TrimSpace(ValueOf(file)))

\* the lines of the file f, each named by the position just before it
Least(S) == CHOOSE x \in S : \A y \in S : x <= y
Greatest(S) == CHOOSE x \in S : \A y \in S : x >= y
Newlines(f) == {i \in 1..Len(f) : f[i] = "\n"}
LineStarts(f) == {0} \cup Newlines(f)
LineAt(f, b) == SubSeq(f, b + 1, Least({c \in Newlines(f) \cup {Len(f) + 1} : c > b}) - 1)
\* the text l without the white space around it
NonBlank(l) == {i \in 1..Len(l) : l[i] \notin WhiteSpace}
Strip(l) == IF NonBlank(l) = {} THEN <<>> ELSE SubSeq(l, Least(NonBlank(l)), Greatest(NonBlank(l)))
Colons(l) == {i \in 1..Len(l) : l[i] = ":"}
\* the lines that make an entry: not blank, no comment, with a colon
MakesEntry(l) == Strip(l) # <<>> /\ Strip(l)[1] # "#" /\ Colons(Strip(l)) # {}
EntryLines(f) == {b \in LineStarts(f) : MakesEntry(LineAt(f, b))}
NthEntryLine(f, n) ==
    LineAt(f, CHOOSE b \in EntryLines(f) : Cardinality({c \in EntryLines(f) : c < b}) = n - 1)
KeyOf(l) == Strip(SubSeq(Strip(l), 1, Least(Colons(Strip(l))) - 1))
AfterColon(l) == Strip(SubSeq(Strip(l), Least(Colons(Strip(l))) + 1, Len(Strip(l))))
Quoted(v) == v # <<>> /\ (v[1] \in QuoteChars \/ v[Len(v)] \in QuoteChars)

\* C20: loadRepositoryEnv appends to the process environment exactly one
\* entry per line of the credential file that is not blank, does not start
\* with '#' after trimming and contains a ':', in the order of the lines; the
\* entry is <key>=<value> with the key the trimmed text before the first ':'
\* and the value the trimmed text after it, later colons included (what
\* happens to quotes around the value is the subject of C19); blank lines,
\* comment lines and lines without ':' make no entry.
C20_OneEntryPerKeyLine ==
    (loaded.called /\ loaded.err = Nil) =>
        /\ Len(loaded.env) = Len(environ) + Cardinality(EntryLines(file))
        /\ SubSeq(loaded.env, 1, Len(environ)) = environ
        /\ \A n \in 1..Cardinality(EntryLines(file)) :
              LET l == NthEntryLine(file, n)
                  entry == loaded.env[Len(environ) + n]
              IN  /\ HasPrefix(entry, KeyOf(l) \o <<"=">>)
                  /\ ~ Quoted(AfterColon(l)) => entry = KeyOf(l) \o <<"=">> \o AfterColon(l)

C20_Witness ==
    /\ loaded.called /\ loaded.err = Nil
    /\ environ # <<>>
    /\ file = <<"K", ":", "K", ":", "\n", "#">>
    /\ loaded.env = environ \o << <<"K", "=", "K", ":">> >>

\* the keys of the entries the file f makes, and the value f gives k last
KeysOf(f) == {KeyOf(LineAt(f, b)) : b \in EntryLines(f)}
LastValue(f, k) ==
    AfterColon(LineAt(f, Greatest({b \in EntryLines(f) : KeyOf(LineAt(f, b)) = k})))
\* the value in effect for the key k in the environment env: its last entry's
InEffect(env, k) ==
    LET e == env[Greatest({i \in DOMAIN env : HasPrefix(env[i], k \o <<"=">>)})]
    IN  SubSeq(e, Len(k) + 2, Len(e))
SameOverlayLastWins ==
    /\ (pc = "loaded" /\ pc' = "reloaded") => loaded' = loaded
    /\ (loaded'.called /\ loaded'.err = Nil) =>
          \A k \in KeysOf(file) :
              ~ Quoted(LastValue(file, k)) => InEffect(loaded'.env, k) = LastValue(file, k)

Overlay(f) ==
    [n \in 1..Cardinality(EntryLines(f)) |->
        KeyOf(NthEntryLine(f, n)) \o <<"=">> \o AfterColon(NthEntryLine(f, n))]

\* the overlay of each content the credential file has in a run
RunOverlays == [f \in {RunFile} \cup EditedFiles |-> Overlay(f)]

\* C22: the credentials are read from the credential file at each operation
\* that needs them: the backup is invoked with the overlay of the file as it
\* was then and the check with the overlay of the file as it is at the verify
\* step, so after an edit between the two the check gets the edited contents
\* and not the overlay used for the backup.
C22_FreshCredentialsAtVerify ==
    \A i \in DOMAIN calls :
        /\ calls[i].op = "Backup" => calls[i].env = environ \o RunOverlays[RunFile]
        /\ calls[i].op = "Check" =>
              /\ calls[i].env = environ \o RunOverlays[file]
              /\ file # RunFile =>
                    \E j \in 1..(i - 1) : calls[j].op = "Backup" /\ calls[j].env # calls[i].env

C22_Witness ==
    /\ file = <<"L", ":", " ", "w">>
    /\ \E i, j \in DOMAIN calls :
          /\ calls[j].op = "Backup" /\ calls[j].env = environ \o << <<"K", "=", "v">> >>
          /\ calls[i].op = "Check" /\ calls[i].env = environ \o << <<"L", "=", "w">> >>

\* the environment env is the process environment and, after it, nothing but
\* entries of the credential file f
OverlayOnlyOf(env, f) ==
    /\ Len(env) >= Len(environ)
    /\ SubSeq(env, 1, Len(environ)) = environ
    /\ \A n \in (Len(environ) + 1)..Len(env) : env[n] \in Range(RunOverlays[f])
NoStaleEntries ==
    /\ environ' = environ
    /\ \A i \in DOMAIN calls' :
          /\ calls'[i].op = "Backup" => OverlayOnlyOf(calls'[i].env, RunFile)
          /\ calls'[i].op = "Check" => OverlayOnlyOf(calls'[i].env, file')

\* C23: a credential overlay exists only for the call it was built for: no
\* step changes the process-wide environment, and the environment given to a
\* call holds, after the process environment, only entries of the credential
\* file as read for that call, none left from an earlier load (such as a key
\* the file no longer has).
C23_OverlayOnlyForItsCall == [][NoStaleEntries]_vars

C23_Witness ==
    /\ file = <<"L", ":", " ", "w">>
    /\ "Backup" \in OpsCalled
    /\ \E i \in DOMAIN calls :
          /\ calls[i].op = "Check"
          /\ <<"K", "=", "v">> \notin Range(calls[i].env)
          /\ <<"L", "=", "w">> \in Range(calls[i].env)

\* the target descriptor t satisfies the invariant of target descriptors
ValidTarget(t) ==
    /\ t.Subvolume # <<>> /\ t.Prefix # <<>> /\ t.Repository # <<>>
    /\ t.Type \in {"incremental", "full"}
    /\ t.KeepSnapshots >= 0
\* the file f goes against the invariant: a required text missing or empty,
\* a mode that is neither "incremental" nor "full", a negative keep-count
FileViolates(f) ==
    \/ ~ f.subvolume.set \/ f.subvolume.val = <<>>
    \/ ~ f.prefix.set \/ f.prefix.val = <<>>
    \/ ~ f.repository.set \/ f.repository.val = <<>>
    \/ f.type.set /\ f.type.val \notin {"", "incremental", "full"}
    \/ f.keep_snapshots.set /\ DecodeInt(f.keep_snapshots.val) < 0

\* C24: every target descriptor a target loader returns without error has a
\* non-empty source path, prefix and repository, the mode "incremental" or
\* "full" and a keep-count >= 0; a file that goes against any of these is
\* rejected with an error.
C24_LoadedTargetValid ==
    loadedTarget.called =>
        /\ loadedTarget.err = Nil => ValidTarget(loadedTarget.target)
        /\ FileViolates(targetFile.fields) => loadedTarget.err # Nil

\* C25: a target loaded from a file that omits mode, verify and keep-count
\* gets the mode "incremental", verify false and the keep-count 3, and a file
\* that sets keep_snapshots to 0 gets the keep-count 3 as well.
C25_DefaultsApplied ==
    (loadedTarget.called /\ loadedTarget.err = Nil) =>
        LET f == targetFile.fields
            t == loadedTarget.target
        IN  /\ ~ f.type.set => t.Type = "incremental"
            /\ ~ f.verify.set => t.Verify = FALSE
            /\ ~ f.keep_snapshots.set => t.KeepSnapshots = DefaultKeepSnapshots
            /\ (f.keep_snapshots.set /\ f.keep_snapshots.val = <<"0">>) =>
                  t.KeepSnapshots = DefaultKeepSnapshots

\* one of the steps whose failure ends the run has failed
FatalStepFailed == StepFailed("validate") \/ StepFailed("snapshot") \/ StepFailed("backup")
WarningStepFailed == StepFailed("verify") \/ StepFailed("cleanup")

TwoCreations ==
    pc = "done" /\ Len(steps) = 2 /\ steps[1].step = "snapshot" /\ steps[2].step = "snapshot"
SameSecond == now = MaxMtime + 1
CreateErrors == {"BTRFS snapshot command failed", "snapshot not found after creation"}

\* C27: two snapshot creations for one prefix within the same second compute
\* the same destination path; CreateSnapshot makes no check for a destination
\* that is already there, so each creation issues its create call, the second
\* one for the path the first has created, and an error of the second comes
\* from the command or from the stat after it.
C27_SameSecondSamePath ==
    TwoCreations =>
        /\ Len(calls) = 2
        /\ \A i \in 1..2 : calls[i].op = "CreateSnapshot"
        /\ SameSecond => calls[1].path = calls[2].path
        /\ \A i \in 1..2 : steps[i].err # Nil => steps[i].err.msg[1] \in CreateErrors

C27_Witness ==
    /\ TwoCreations /\ SameSecond /\ root = "present"
    /\ steps[1].err = Nil
    /\ calls[2].path = calls[1].path
    /\ Base(calls[2].path) \in DOMAIN dir \ preExisting

\* ValidateEnvironment has been called on its own
Validated == pc = "done" /\ Len(steps) = 1 /\ steps[1].step = "validate"

\* C28: ValidateEnvironment fails on the check of the snapshot root only when
\* the stat of the root reports not-exist; under any other stat error it goes
\* on to the source check, and then it succeeds exactly when ShowSubvolume
\* succeeds, a failure giving "source subvolume invalid or not BTRFS".
C28_OnlyNotExistFailsRootCheck ==
    /\ Validated =>
          LET e == steps[1].err
          IN  /\ root = "absent" <=>
                    (e # Nil /\ e.msg[1] = "snapshots directory does not exist")
              /\ root = "absent" => calls = <<>>
              /\ root # "absent" =>
                    /\ Len(calls) = 1 /\ calls[1].op = "ShowSubvolume"
                    /\ e = Nil \/ e.msg[1] = "source subvolume invalid or not BTRFS"
    /\ (pc = "unitValidate" /\ root # "absent") =>
          \A showOk \in BOOLEAN :
              ValidateEnvironment(target.Subvolume, root, showOk).err = Nil <=> showOk

C28_Witness ==
    /\ Validated /\ root = "denied"
    /\ steps[1].err = Nil
    /\ Len(calls) = 1 /\ calls[1].op = "ShowSubvolume"

\* the first snapshot creation has been made, at the time now
Created == pc = "unitSnapshotAgain" /\ SameSecond /\ Len(steps) = 1
NameNow == target.Prefix \o <<"-">> \o FormatTimestamp(now)
\* a stat of the name would succeed
StatFinds(name) == root \in {"present", "unreadable"} /\ name \in DOMAIN dir

\* C29: CreateSnapshot returns a non-empty path only when the create call
\* succeeded and the stat after it found the destination; when the command
\* fails, or the destination is missing afterwards, it returns an error and
\* an empty path.
C29_PathOnlyWhenConfirmed ==
    Created =>
        /\ snapshotPath # <<>> => (steps[1].err = Nil /\ StatFinds(NameNow))
        /\ steps[1].err # Nil => snapshotPath = <<>>
        /\ NameNow \notin DOMAIN dir => (steps[1].err # Nil /\ snapshotPath = <<>>)

\* PerformBackup has been called on its own
BackedUp == pc = "done" /\ Len(steps) = 1 /\ steps[1].step = "backup"
SnapshotMissing ==
    root = "absent" \/ ~ \E n \in DOMAIN dir : Join(SnapshotDir, n) = snapshotPath

\* C30: PerformBackup looks for the snapshot path first; when the snapshot is
\* missing it returns "snapshot path does not exist" without loading the
\* credentials and without calling the backup tool; otherwise it checks, then
\* loads the credentials, then calls the backup tool.
C30_ExistenceCheckFirst ==
    BackedUp =>
        /\ ops[1] = "Stat"
        /\ SnapshotMissing =>
              /\ steps[1].err # Nil
              /\ steps[1].err.msg = <<"snapshot path does not exist">>
              /\ ops = <<"Stat">> /\ calls = <<>>
        /\ ~ SnapshotMissing =>
              ops \in {<<"Stat", "loadRepositoryEnv">>, <<"Stat", "loadRepositoryEnv", "Backup">>}

\* CleanupOldSnapshots has been called on its own
CleanedUp == pc = "done" /\ Len(steps) = 1 /\ steps[1].step = "cleanup"
\* deleteSnapshot returned an error for the name
DeleteFailed(name) == name \in Range(cleanup.failed)

\* C31: a deletion succeeds only if the delete command succeeded and the path
\* is gone afterwards: deleteSnapshot returns an error when the command
\* fails, and when the command succeeds but the path can still be stat-ed;
\* whenever it returns success the snapshot is absent from a listing made
\* afterwards.
C31_DeletionSucceedsOnlyWhenGone ==
    CleanedUp =>
        \A i \in 1..Len(cleanup.toDelete) :
            LET name == cleanup.toDelete[i]
                o == cleanup.outcomes[i]
            IN  /\ o = "cmdfail" => DeleteFailed(name)
                /\ (o # "cmdfail" /\ StatFinds(name)) => DeleteFailed(name)
                /\ ~ DeleteFailed(name) =>
                      /\ o # "cmdfail"
                      /\ name \notin DOMAIN dir
                      /\ \A l \in getSnapshotsByPrefix(target.Prefix, root, dir) :
                            name \notin Range(l.list)

C31_Witness ==
    /\ CleanedUp
    /\ \E i, j \in 1..Len(cleanup.toDelete) :
          /\ cleanup.outcomes[i] = "stillexists"
          /\ DeleteFailed(cleanup.toDelete[i]) /\ cleanup.toDelete[i] \in DOMAIN dir
          /\ cleanup.outcomes[j] = "deleted"
          /\ ~ DeleteFailed(cleanup.toDelete[j]) /\ cleanup.toDelete[j] \notin DOMAIN dir

\* getSnapshotsByPrefix has been called on its own
ListedAlone == pc = "done" /\ Len(steps) = 1 /\ steps[1].step = "list"

\* C32: getSnapshotsByPrefix returns a listing error only if the snapshot
\* root exists but cannot be enumerated; it never returns an error caused by
\* the root not existing, also when the root disappears between the check of
\* its existence and the read of the directory.
C32_NoErrorForMissingRoot ==
    ListedAlone =>
        /\ steps[1].err # Nil => root \in {"unreadable", "denied"}
        /\ "no such file or directory" \notin Range(steps[1].err.msg)

\* the target file declares a negative keep_snapshots
DeclaresNegativeKeep ==
    targetFile.fields.keep_snapshots.set /\ DecodeInt(targetFile.fields.keep_snapshots.val) < 0

\* C33: no target file that declares a negative keep_snapshots loads: the
\* load fails, with the "keep_snapshots must be non-negative" error when the
\* file is otherwise valid, whether it is parsed as JSON or by the line
\* parser for YAML.
C33_NegativeKeepRejected ==
    (loadedTarget.called /\ DeclaresNegativeKeep) =>
        /\ loadedTarget.err # Nil
        /\ ~ FileViolates([targetFile.fields EXCEPT !.keep_snapshots = Unset(<<>>)]) =>
              "keep_snapshots must be non-negative" \in Range(loadedTarget.err.msg)

\* the entries of the root before the cleanup whose name starts with "<prefix>-"
Prefixed == {n \in DOMAIN cleanup.before : HasPrefix(n, SearchPrefix)}
\* those of them whose metadata can be read
Readable == {n \in Prefixed : ~ InfoFails(cleanup.before, n)}

\* C34: CleanupOldSnapshots issues delete calls only for entries of the
\* snapshot root whose name starts with "<prefix>-"; an entry with another
\* name is never deleted and does not count against the keep-count, whatever
\* its modification time.
C34_OnlyPrefixedDeleted ==
    CleanedUp =>
        /\ \A i \in DOMAIN calls :
              calls[i].op = "DeleteSubvolume" =>
                  \E n \in Prefixed : calls[i].path = Join(SnapshotDir, n)
        /\ \A n \in DOMAIN cleanup.before \ Prefixed :
              /\ n \in DOMAIN dir /\ dir[n] = cleanup.before[n]
              /\ n \notin Range(cleanup.list)
        /\ cleanup.listErr = Nil =>
              Len(cleanup.toDelete) = Max(0, Cardinality(Readable) - target.KeepSnapshots)

C34_Witness ==
    /\ CleanedUp /\ root = "present"
    /\ target.Prefix = <<"a", "-", "b">> /\ target.KeepSnapshots = 0
    /\ DOMAIN cleanup.before = OldNames
    /\ Len(DeleteCalls) = 1 /\ cleanup.err = Nil
    /\ DOMAIN dir = OldNames \ {<<"a", "-", "b", "-", "0", "-", "0">>}

\* the entries now in the snapshot root whose name starts with "<prefix>-"
Remaining == {n \in DOMAIN dir : HasPrefix(n, SearchPrefix)}
\* the run is over, its cleanup step reported no failure and no other process
\* changed anything
CleanRunOver == Returned /\ cleanup.ran /\ cleanup.err = Nil /\ external = 0

\* C35: after a run whose cleanup step reports no failure, no other process
\* having changed the snapshot root and all metadata being readable, at most
\* keep-count entries named "<prefix>-..." remain in the snapshot root,
\* however many there were before the run.
C35_AtMostKeepRemain ==
    (CleanRunOver /\ \A n \in DOMAIN cleanup.before : ~ InfoFails(cleanup.before, n)) =>
        Cardinality(Remaining) <= target.KeepSnapshots

C35_Witness ==
    /\ CleanRunOver
    /\ target.KeepSnapshots = 1
    /\ Cardinality(PreExistingOfPrefix) >= 2
    /\ Remaining = {CreatedName}
    /\ Len(DeleteCalls) >= 2

\* the delete call made for the snapshot this run created
DeletesCreated(c) == IsDelete(c) /\ c.path = snapshotPath

\* C36: for every keep-count >= 1, the cleanup step of a run never deletes the
\* snapshot the same run created and backed up: no delete call is made for it
\* and it is not among the entries cleanup chose to delete.
C36_CreatedSnapshotRetained ==
    (target.KeepSnapshots >= 1 /\ Succeeded("backup") /\ cleanup.ran) =>
        /\ \A i \in DOMAIN calls : ~ DeletesCreated(calls[i])
        /\ CreatedName \notin Range(cleanup.toDelete)

\* the entries named "<prefix>-..." whose metadata could not be read
Unreadable == Prefixed \ Readable
\* the directory d without the entries of the set ns
Without(d, ns) == [n \in DOMAIN d \ ns |-> d[n]]

\* C37: an entry named "<prefix>-..." whose metadata cannot be read is left
\* out of the inventory without any error: cleanup never deletes it, it does
\* not count toward the keep-count, and the other entries are listed, kept
\* and deleted as they would be if it were not in the snapshot root.
C37_UnreadableEntryLeftOut ==
    (CleanedUp /\ root = "present") =>
        /\ cleanup.listErr = Nil
        /\ \A n \in Unreadable :
              /\ n \notin Range(cleanup.list)
              /\ n \notin Range(cleanup.toDelete)
              /\ n \in DOMAIN dir
              /\ \A i \in DOMAIN calls : calls[i].path # Join(SnapshotDir, n)
        /\ [list |-> cleanup.list, err |-> Nil] \in
              getSnapshotsByPrefix(target.Prefix, root, Without(cleanup.before, Unreadable))
        /\ cleanup.toDelete = SnapshotsToDelete(cleanup.list, target.KeepSnapshots)
        /\ Len(cleanup.toDelete) = Max(0, Cardinality(Readable) - target.KeepSnapshots)
        /\ (cleanup.failed = <<>>) = (cleanup.err = Nil)

C37_Witness ==
    /\ CleanedUp /\ root = "present"
    /\ Unreadable # {}
    /\ Cardinality(Readable) = 1
    /\ target.KeepSnapshots = 1
    /\ cleanup.toDelete = <<>>
    /\ cleanup.err = Nil
    /\ Unreadable \subseteq DOMAIN dir

\* what the two orchestrations do after the i-th step call of the run
ManagerDoes(i) == RunBackup(steps[i].step, steps[i].err, target, snapshotPath)
CliDoes(i) == runBackup(steps[i].step, steps[i].err, target, snapshotPath)

\* C38: backup.Manager.RunBackup and the runBackup of internal/cli are
\* equivalent: after every step call of a run, whatever its outcome and the
\* verify flag, both go on to the same next step call or both return, and
\* both return success or both return failure.
C38_OrchestrationsEquivalent ==
    \A i \in DOMAIN steps :
        /\ ManagerDoes(i).pc = CliDoes(i).pc
        /\ (ManagerDoes(i).result = Nil) = (CliDoes(i).result = Nil)

\* the i-th external call of the run comes after a backup call of the run
AfterBackupCall(i) == \E j \in 1..(i - 1) : calls[j].op = "Backup"

\* C39: in any run, a snapshot delete call is issued only after the backup
\* call of the same run has returned success: every delete call follows a
\* backup call and the backup step succeeded, and a run whose validation,
\* snapshot creation or backup failed issues no delete call.
C39_DeleteOnlyAfterBackup ==
    /\ \A i \in DOMAIN calls :
          IsDelete(calls[i]) => Succeeded("backup") /\ AfterBackupCall(i)
    /\ (StepFailed("validate") \/ StepFailed("snapshot") \/ StepFailed("backup")) =>
          DeleteCalls = <<>>

C39_Witness ==
    /\ Returned /\ variant = "main"
    /\ Succeeded("backup")
    /\ Len(DeleteCalls) >= 2
    /\ AfterBackupCall(Len(calls))

\* the names the environment env sets
NamesOf(env) == {SubSeq(env[i], 1, Index(env[i], "=") - 1) : i \in DOMAIN env}
\* the place of the entry in effect for the key k in env: the last one for k
PlaceInEffect(env, k) == Greatest({i \in DOMAIN env : HasPrefix(env[i], k \o <<"=">>)})

\* C40: the overlay loadRepositoryEnv returns is the ambient environment
\* followed by the parsed entries in file order, so with the last entry for a
\* name in effect every key the file defines has the value of the file, also
\* when the ambient environment sets the same name, and every ambient
\* variable the file does not name keeps its ambient value.
C40_FileOverridesAmbient ==
    (loaded.called /\ loaded.err = Nil) =>
        /\ loaded.env = environ \o Overlay(file)
        /\ \A k \in KeysOf(file) :
              /\ PlaceInEffect(loaded.env, k) > Len(environ)
              /\ InEffect(loaded.env, k) = LastValue(file, k)
        /\ \A k \in NamesOf(environ) \ KeysOf(file) :
              /\ PlaceInEffect(loaded.env, k) = PlaceInEffect(environ, k)
              /\ InEffect(loaded.env, k) = InEffect(environ, k)

C40_Witness ==
    /\ loaded.called /\ loaded.err = Nil
    /\ environ = << <<"K", "=", "e">>, <<"P", "=", "e">> >>
    /\ file = <<"K", ":", "v", "\n", "K", ":", " ", "w">>
    /\ loaded.env = environ \o << <<"K", "=", "v">>, <<"K", "=", "w">> >>
    /\ InEffect(loaded.env, <<"K">>) = <<"w">>
    /\ InEffect(loaded.env, <<"P">>) = <<"e">>

====
